---- MODULE Spec2Model ----
(***************************************************************************)
(* A model of the TR-31:2018 key-block engine of paysec                    *)
(* (src/src/keyblock/tr31_2018): the optional-block chain, the key block   *)
(* header codec, the version D key derivation, the payload codec and       *)
(* tr31_wrap / tr31_unwrap.                                                *)
(*                                                                         *)
(* Representation.  A Rust String or byte vector is kept run-length        *)
(* encoded: a sequence of runs <<c, end>>, the run holding copies of c up  *)
(* to the offset `end` (exclusive) where the next run starts; adjacent     *)
(* runs hold different c, so that two values are equal exactly when the    *)
(* strings are and a 65,000 character optional block costs one run.  A     *)
(* character is a one-character TLA+ string; the two bytes of a non-ASCII  *)
(* character are the tokens LEAD and CONT.  A byte is a number 0..255.     *)
(* A Result is a record [st, e, v]: st = "ok" with the value v, st = "err" *)
(* with the error e, or st = "panic" for an abort (slice out of range or   *)
(* off a character boundary, arithmetic overflow in a debug build).        *)
(***************************************************************************)
EXTENDS Integers, Sequences, FiniteSets, TLC

\* ------------------------------------------------------------ strings

Rep(c, n) == IF n <= 0 THEN <<>> ELSE << <<c, n>> >>

\* str::len / Vec::len, in bytes
SLen(s) == IF s = <<>> THEN 0 ELSE s[Len(s)][2]

\* the runs of s with their offsets moved by d
Shift(s, d) == [k \in 1..Len(s) |-> <<s[k][1], s[k][2] + d>>]

\* push_str / format!("{}{}") / extend_from_slice
Cat(a, b) ==
  IF a = <<>> THEN b
  ELSE IF b = <<>> THEN a
  ELSE IF a[Len(a)][1] = b[1][1]
       THEN SubSeq(a, 1, Len(a) - 1) \o Shift(b, SLen(a))
       ELSE a \o Shift(b, SLen(a))

Cat3(a, b, c) == Cat(Cat(a, b), c)

\* the string or byte vector holding the elements of the tuple t
Str(t) ==
  LET u == t \o <<>>
      IsEnd(i) == i = Len(u) \/ u[i] # u[i + 1]
      ends == SelectSeq([i \in 1..Len(u) |-> i], IsEnd)
  IN  [k \in 1..Len(ends) |-> <<u[ends[k]], ends[k]>>]

RECURSIVE Search(_, _, _, _)
\* the first run among lo..hi of s that ends beyond the offset i
Search(s, i, lo, hi) ==
  IF lo >= hi THEN lo
  ELSE IF s[(lo + hi) \div 2][2] > i THEN Search(s, i, lo, (lo + hi) \div 2)
  ELSE Search(s, i, ((lo + hi) \div 2) + 1, hi)

\* the run of s holding the 0-based offset i < SLen(s)
RunAt(s, i) == Search(s, i, 1, Len(s))

\* the element at 0-based offset i < SLen(s)
At(s, i) == s[RunAt(s, i)][1]

\* &s[a..b], the bounds cut to the string
Slice(s, a, b) ==
  LET from == IF a < 0 THEN 0 ELSE a
      to == IF b > SLen(s) THEN SLen(s) ELSE b
      ka == RunAt(s, from)
      kb == RunAt(s, to - 1)
  IN  IF to <= from THEN <<>>
      ELSE [k \in 1..(kb - ka + 1) |->
              <<s[ka + k - 1][1],
                (IF ka + k - 1 = kb THEN to ELSE s[ka + k - 1][2]) - from>>]

Take(s, n) == Slice(s, 0, n)
Drop(s, n) == Slice(s, n, SLen(s))

\* a short string as a plain tuple of its elements
Plain(s) == [i \in 1..SLen(s) |-> At(s, i - 1)] \o <<>>

\* the elements occurring in s
Elems(s) == {s[i][1] : i \in 1..Len(s)}

\* The two bytes of one non-ASCII character (U+00E9 is C3 A9 in UTF-8).
LEAD == "<C3>"
CONT == "<A9>"

\* The two bytes of a non-ASCII character that char::is_numeric accepts
\* (U+00B2, superscript two, is C2 B2 in UTF-8).
NUM_LEAD == "<C2>"
NUM_CONT == "<B2>"

\* str::is_char_boundary
IsBoundary(s, i) ==
  i = 0 \/ i = SLen(s) \/ (i < SLen(s) /\ At(s, i) \notin {CONT, NUM_CONT})

\* whether &s[a..b] is evaluated without a panic
SliceOk(s, a, b) ==
  a <= b /\ b <= SLen(s) /\ IsBoundary(s, a) /\ IsBoundary(s, b)

\* char::is_ascii on every character
IsAscii(s) == Elems(s) \cap {LEAD, CONT, NUM_LEAD, NUM_CONT} = {}

Ok(v) == [st |-> "ok", e |-> "", v |-> v]
\* e is the text of the message, without the values format! puts into it
Err(e) == [st |-> "err", e |-> e, v |-> <<>>]
\* the Err of a &mut self method, with the object as the call left it
ErrV(e, v) == [st |-> "err", e |-> e, v |-> v]
Panic == [st |-> "panic", e |-> "", v |-> <<>>]

\* the element of a set of one element: Only({F(y) : y \in {x}}) is F(x), with
\* the value x computed once and used under the name y
Only(S) == CHOOSE r \in S : TRUE

\* ------------------------------------------------- characters, numbers

\* The printable ASCII characters in code order, from 32 (space) to 126; the
\* double quote, the backslash and the backquote are the tokens <22>, <5C>, <60>.
AsciiTable ==
  <<
    " ", "!", "<22>", "#", "$", "%", "&", "'", "(", ")", "*", "+", ",", "-", ".", "/",
    "0", "1", "2", "3", "4", "5", "6", "7", "8", "9", ":", ";", "<", "=", ">", "?",
    "@", "A", "B", "C", "D", "E", "F", "G", "H", "I", "J", "K", "L", "M", "N", "O",
    "P", "Q", "R", "S", "T", "U", "V", "W", "X", "Y", "Z", "[", "<5C>", "]", "^", "_",
    "<60>", "a", "b", "c", "d", "e", "f", "g", "h", "i", "j", "k", "l", "m", "n", "o",
    "p", "q", "r", "s", "t", "u", "v", "w", "x", "y", "z", "{", "|", "}", "~"
  >>

\* the byte of each character
OrdTable ==
  [c \in {AsciiTable[i] : i \in 1..Len(AsciiTable)} \cup {LEAD, CONT, NUM_LEAD, NUM_CONT} |->
     IF c = LEAD THEN 195
     ELSE IF c = CONT THEN 169
     ELSE IF c = NUM_LEAD THEN 194
     ELSE IF c = NUM_CONT THEN 178
     ELSE 31 + (CHOOSE i \in 1..Len(AsciiTable) : AsciiTable[i] = c)]

\* the byte of a character (str::as_bytes)
Ord(c) == OrdTable[c]

\* str::as_bytes
AsBytes(s) == [i \in 1..Len(s) |-> <<Ord(s[i][1]), s[i][2]>>]

HexUpper ==
  <<"0", "1", "2", "3", "4", "5", "6", "7", "8", "9", "A", "B", "C", "D", "E", "F">>
HexLower ==
  <<"0", "1", "2", "3", "4", "5", "6", "7", "8", "9", "a", "b", "c", "d", "e", "f">>

\* the value of each hexadecimal digit
HexValue ==
  [c \in {HexUpper[i] : i \in 1..16} \cup {HexLower[i] : i \in 1..16} |->
     (CHOOSE i \in 1..16 : HexUpper[i] = c \/ HexLower[i] = c) - 1]

\* char::to_digit(radix): the digit's value, -1 when c is no digit of the radix
DigitVal(c, radix) ==
  IF c \in DOMAIN HexValue /\ HexValue[c] < radix THEN HexValue[c] ELSE -1

RECURSIVE DigitsValue(_, _)
DigitsValue(d, radix) ==
  IF d = <<>> THEN 0
  ELSE DigitsValue(SubSeq(d, 1, Len(d) - 1), radix) * radix + DigitVal(d[Len(d)], radix)

\* <unsigned>::from_str_radix on the string s of at most 4 characters: an
\* optional '+', then one or more digits of the radix; -1 for Err.
FromStrRadix(s, radix) ==
  LET t == Plain(s)
      d == IF t # <<>> /\ t[1] = "+" THEN Tail(t) ELSE t
  IN  IF d = <<>> \/ \E i \in 1..Len(d) : DigitVal(d[i], radix) < 0
      THEN -1
      ELSE DigitsValue(d, radix)

RECURSIVE DigitsOf(_, _)
DigitsOf(n, radix) ==
  IF n < radix THEN <<n>> ELSE DigitsOf(n \div radix, radix) \o <<n % radix>>

\* format!("{:0w}") for radix 10 and format!("{:0wX}") for radix 16
Fmt(n, radix, w) ==
  LET d == DigitsOf(n, radix)
      p == IF Len(d) < w THEN [i \in 1..(w - Len(d)) |-> 0] \o d ELSE d
  IN  Str([i \in 1..Len(p) |-> HexUpper[p[i] + 1]])

\* ------------------------------------------------------------ OptBlock
\* An OptBlock with the chain it owns through `next` is the non-empty sequence
\* of its nodes [id, data, length], head first; Option<Box<OptBlock>> None is
\* the empty sequence.

S2(a, b) == Str(<<a, b>>)

OptBlock_ALLOWED_IDS ==
  {S2("C", "T"), S2("H", "M"), S2("I", "K"), S2("K", "C"), S2("K", "P"),
   S2("K", "S"), S2("K", "V"), S2("P", "B"), S2("T", "S")}

OptBlock_new_empty == << [id |-> <<>>, data |-> <<>>, length |-> 0] >>

OptBlock_is_allowed_id(id) == id \in OptBlock_ALLOWED_IDS

OptBlock_set_id(self, id) ==
  IF OptBlock_is_allowed_id(id)
  THEN Ok([self EXCEPT ![1].id = id])
  ELSE ErrV("ERROR TR-31 OPT BLOCK: Invalid ID", self)

OptBlock_set_length(self) ==
  LET min_len == SLen(self[1].id) + 2 + SLen(self[1].data)
      length == IF min_len < 256 THEN min_len ELSE min_len + 6
  IN  IF length > 65535
      THEN ErrV("ERROR TR-31 OPT BLOCK: Block size is too long", [self EXCEPT ![1].length = 0])
      ELSE Ok([self EXCEPT ![1].length = length])

OptBlock_set_data(self, data) ==
  IF SLen(self[1].id) # 2 THEN ErrV("ERROR TR-31 OPT BLOCK: ID not set", self)
  ELSE IF ~IsAscii(data) THEN ErrV("ERROR TR-31 OPT BLOCK: Data has non ASCII characters", self)
  ELSE OptBlock_set_length([self EXCEPT ![1].data = data])

OptBlock_set_next(self, next_block) == <<self[1]>> \o next_block

\* the last node, the one self reaches through next with no next of its own,
\* gets the chain to append as its next
OptBlock_append(self, opt_block_to_append) ==
  SubSeq(self, 1, Len(self) - 1)
    \o OptBlock_set_next(<<self[Len(self)]>>, opt_block_to_append)

OptBlock_new(id, data, next) ==
  LET r1 == OptBlock_set_id(OptBlock_new_empty, id)
      r2 == OptBlock_set_data(r1.v, data)
  IN  IF r1.st # "ok" THEN Err(r1.e)
      ELSE IF r2.st # "ok" THEN Err(r2.e)
      ELSE Ok(OptBlock_set_next(r2.v, next))

RECURSIVE OptBlock_total_length(_)
\* self.length plus the total length of next: the sum of the lengths of the
\* nodes, taken by halves of the chain
OptBlock_total_length(self) ==
  IF Len(self) = 1 THEN self[1].length
  ELSE OptBlock_total_length(SubSeq(self, 1, Len(self) \div 2))
         + OptBlock_total_length(SubSeq(self, (Len(self) \div 2) + 1, Len(self)))

OptBlock_len_from_str(s) ==
  LET len == FromStrRadix(s, 16)
  IN  IF SLen(s) # 2 THEN Err("ERROR TR-31 OPT BLOCK: Invalid length field")
      ELSE IF len < 0 THEN Err("ERROR TR-31 OPT BLOCK: Invalid length field: not hexadecimal")
      ELSE IF len < 4 THEN Err("ERROR TR-31 OPT BLOCK: Invalid length field: too small")
      ELSE Ok(len)

OptBlock_ext_len_from_str(s) ==
  LET res == FromStrRadix(Slice(s, 2, 6), 16)
  IN  IF SLen(s) # 6 THEN Err("ERROR TR-31 OPT BLOCK: Invalid extended length field")
      ELSE IF ~SliceOk(s, 0, 2) THEN Panic
      ELSE IF Slice(s, 0, 2) # S2("0", "2")
           THEN Err("ERROR TR-31 OPT BLOCK: Invalid length of length field")
      ELSE IF res < 0 THEN Err("ERROR TR-31 OPT BLOCK: invalid digit")
      ELSE IF res <= 255
           THEN Err("ERROR TR-31 OPT BLOCK: Extended length is not greater than 255")
      ELSE Ok(res)

RECURSIVE OptBlock_new_from_str(_, _)

\* r2 is the Result of set_data on the block parsed from s: the blocks after it
OptBlock_new_from_str_next(s, num_opt_blocks, r2) ==
  IF r2.st # "ok" THEN Err(r2.e)
  ELSE IF num_opt_blocks > 1
       THEN IF ~SliceOk(s, r2.v[1].length, SLen(s)) THEN Panic
            ELSE Only({ IF next_block.st # "ok" THEN next_block
                        ELSE Ok(OptBlock_set_next(r2.v, next_block.v)) :
                        next_block \in {OptBlock_new_from_str(Drop(s, r2.v[1].length),
                                                              num_opt_blocks - 1)} })
  ELSE Ok(r2.v)

\* len is the Result of the parse of the length field of s
OptBlock_new_from_str_data(s, num_opt_blocks, ext, len) ==
  IF len.st # "ok" THEN len
  ELSE IF SLen(s) < len.v THEN Err("ERROR TR-31 OPT BLOCK: String too short for given length")
  ELSE IF ~SliceOk(s, IF ext THEN 10 ELSE 4, len.v) THEN Panic
  ELSE \* opt_block.length = <parsed length>; then set_data, which sets it again
       Only({ OptBlock_new_from_str_next(s, num_opt_blocks, r2) :
                r2 \in {OptBlock_set_data(
                          << [id |-> Slice(s, 0, 2), data |-> <<>>, length |-> len.v] >>,
                          Slice(s, IF ext THEN 10 ELSE 4, len.v))} })

OptBlock_new_from_str(s, num_opt_blocks) ==
  LET r1 == OptBlock_set_id(OptBlock_new_empty, Slice(s, 0, 2))
      ext == Slice(s, 2, 4) = S2("0", "0")
  IN  IF SLen(s) < 4 THEN Err("ERROR TR-31 OPT BLOCK: String too short")
      ELSE IF ~SliceOk(s, 0, 2) THEN Panic
      ELSE IF r1.st # "ok" THEN Err(r1.e)
      ELSE IF ~SliceOk(s, 2, 4) THEN Panic
      ELSE IF ext /\ SLen(s) < 256
           THEN Err("ERROR TR-31 OPT BLOCK: String containing extended length too short")
      ELSE IF ext /\ ~SliceOk(s, 4, 10) THEN Panic
      ELSE Only({ OptBlock_new_from_str_data(s, num_opt_blocks, ext, len) :
                    len \in {IF ext THEN OptBlock_ext_len_from_str(Slice(s, 4, 10))
                             ELSE OptBlock_len_from_str(Slice(s, 2, 4))} })

\* an export that knows no extended length field
ExportNodeNoExtended(self) ==
  IF self[1].length < 4 THEN Err("ERROR TR-31 OPT BLOCK: Length must be greater than 4")
  ELSE Ok(Cat3(self[1].id, Fmt(self[1].length, 16, 2), self[1].data))

\* the export of the node self, without the nodes after it
OptBlock_export_node(self) ==
  LET field == IF self[1].length < 256
               THEN Fmt(self[1].length, 16, 2)
               ELSE Cat(Str(<<"0", "0", "0", "2">>), Fmt(self[1].length, 16, 4))
  IN  IF self[1].length < 4 THEN Err("ERROR TR-31 OPT BLOCK: Length must be greater than 4")
      ELSE Ok(Cat3(self[1].id, field, self[1].data))

RECURSIVE OptBlock_export_str(_)
\* the export of self followed by the export of next, up to the first node
\* that fails: the exports of the nodes in order, taken by halves of the chain
OptBlock_export_str(self) ==
  IF Len(self) = 1 THEN OptBlock_export_node(self)
  ELSE Only({ IF res.st # "ok" THEN res
              ELSE Only({ IF next.st # "ok" THEN next ELSE Ok(Cat(res.v, next.v)) :
                          next \in {OptBlock_export_str(
                                      SubSeq(self, (Len(self) \div 2) + 1, Len(self)))} }) :
              res \in {OptBlock_export_str(SubSeq(self, 1, Len(self) \div 2))} })

\* ------------------------------------------------------ KeyBlockHeader

S1(a) == Str(<<a>>)

ALLOWED_VERSION_IDS == {S1("A"), S1("B"), S1("C"), S1("D")}

ALLOWED_KEY_USAGES ==
  {S2("B", "0"), S2("B", "1"), S2("B", "2"), S2("C", "0"), S2("D", "0"), S2("D", "1"),
   S2("D", "2"), S2("E", "0"), S2("E", "1"), S2("E", "2"), S2("E", "3"), S2("E", "4"),
   S2("E", "5"), S2("E", "6"), S2("K", "0"), S2("K", "1"), S2("K", "2"), S2("K", "3"),
   S2("M", "0"), S2("M", "1"), S2("M", "2"), S2("M", "3"), S2("M", "4"), S2("M", "5"),
   S2("M", "6"), S2("M", "7"), S2("M", "8"), S2("P", "0"), S2("S", "0")}

ALLOWED_ALGORITHMS == {S1("A"), S1("D"), S1("E"), S1("H"), S1("R"), S1("S"), S1("T")}

ALLOWED_MODES_OF_USE ==
  {S1("B"), S1("C"), S1("D"), S1("E"), S1("G"), S1("N"), S1("S"), S1("T"), S1("V"), S1("X"), S1("Y")}

ALLOWED_EXPORTABILITIES == {S1("E"), S1("N"), S1("S")}

KeyBlockHeader_new_empty ==
  [version_id |-> <<>>, kb_length |-> 0, key_usage |-> <<>>, algorithm |-> <<>>,
   mode_of_use |-> <<>>, key_version_number |-> <<>>, exportability |-> <<>>,
   num_opt_blocks |-> 0, reserved_field |-> S2("0", "0"), opt_blocks |-> <<>>]

KeyBlockHeader_set_version_id(self, value) ==
  IF value \in ALLOWED_VERSION_IDS
  THEN Ok([self EXCEPT !.version_id = value])
  ELSE ErrV("ERROR TR-31 HEADER: Invalid version ID", self)

\* value is the u16 the caller passes
KeyBlockHeader_set_kb_length(self, value) ==
  IF value > 9999
  THEN ErrV("ERROR TR-31 HEADER: Invalid key block length", self)
  ELSE Ok([self EXCEPT !.kb_length = value])

\* a set_key_usage that stores every value
KeyBlockHeader_set_key_usage_any(self, value) == Ok([self EXCEPT !.key_usage = value])

KeyBlockHeader_set_key_usage(self, value) ==
  IF value \in ALLOWED_KEY_USAGES
  THEN Ok([self EXCEPT !.key_usage = value])
  ELSE ErrV("ERROR TR-31 HEADER: Invalid key usage", self)

KeyBlockHeader_set_algorithm(self, value) ==
  IF value \in ALLOWED_ALGORITHMS
  THEN Ok([self EXCEPT !.algorithm = value])
  ELSE ErrV("ERROR TR-31 HEADER: Invalid algorithm", self)

KeyBlockHeader_set_mode_of_use(self, value) ==
  IF value \in ALLOWED_MODES_OF_USE
  THEN Ok([self EXCEPT !.mode_of_use = value])
  ELSE ErrV("ERROR TR-31 HEADER: Invalid mode of use", self)

KeyBlockHeader_set_key_version_number(self, value) ==
  IF SLen(value) # 2
  THEN ErrV("ERROR TR-31 HEADER: Key version number must consist of 2 ASCII characters", self)
  ELSE IF ~IsAscii(value)
  THEN ErrV("ERROR TR-31 HEADER: Key version number must consist of ASCII characters", self)
  ELSE Ok([self EXCEPT !.key_version_number = value])

KeyBlockHeader_set_exportability(self, value) ==
  IF value \in ALLOWED_EXPORTABILITIES
  THEN Ok([self EXCEPT !.exportability = value])
  ELSE ErrV("ERROR TR-31 HEADER: Invalid exportability", self)

\* value is the u8 the caller passes
KeyBlockHeader_set_num_optional_blocks(self, value) ==
  IF value > 99
  THEN ErrV("ERROR TR-31 HEADER: Number of opt blocks value is too large", self)
  ELSE Ok([self EXCEPT !.num_opt_blocks = value])

KeyBlockHeader_set_reserved_field(self, value) ==
  IF value = S2("0", "0")
  THEN Ok([self EXCEPT !.reserved_field = value])
  ELSE ErrV("ERROR TR-31 HEADER: Invalid value for reserved field", self)

\* the largest value of num_opt_blocks, a u8
U8_MAX == 255

\* A u8 counter taken to n by += steps: beyond 255 a debug build aborts and a
\* release build wraps.
U8Add(b, n) ==
  IF n <= U8_MAX THEN Ok(n) ELSE IF b = "debug" THEN Panic ELSE Ok(n % (U8_MAX + 1))

\* b is the build; the result is Ok(header) or Panic
KeyBlockHeader_set_opt_blocks(b, self, opt_blocks) ==
  LET n == U8Add(b, Len(opt_blocks))
  IN  IF n.st # "ok" THEN Panic
      ELSE Ok([self EXCEPT !.opt_blocks = opt_blocks, !.num_opt_blocks = n.v])

KeyBlockHeader_append_opt_blocks(b, self, opt_block_to_append) ==
  LET additional_blocks_count == U8Add(b, Len(opt_block_to_append))
      chain == IF self.opt_blocks # <<>>
               THEN OptBlock_append(self.opt_blocks, opt_block_to_append)
               ELSE opt_block_to_append
      n == U8Add(b, self.num_opt_blocks + additional_blocks_count.v)
  IN  IF additional_blocks_count.st # "ok" \/ n.st # "ok" THEN Panic
      ELSE Ok([self EXCEPT !.opt_blocks = chain, !.num_opt_blocks = n.v])

KeyBlockHeader_len(self) ==
  16 + (IF self.opt_blocks # <<>> THEN OptBlock_total_length(self.opt_blocks) ELSE 0)

\* a finalize that pads every header that has optional blocks
FinalizeAlwaysPads(b, self) ==
  LET block_size == IF self.version_id = S1("D") THEN 16 ELSE 8
      needed == block_size - (KeyBlockHeader_len(self) % block_size)
      padding_needed == IF needed < 6 THEN needed + block_size ELSE needed
      padding_block == OptBlock_new(S2("P", "B"), Rep("0", padding_needed - 4), <<>>)
      n == U8Add(b, self.num_opt_blocks + 1)
  IN  IF self.opt_blocks = <<>> THEN Ok(self)
      ELSE IF n.st # "ok" THEN Panic
      ELSE Ok([self EXCEPT
                 !.opt_blocks = OptBlock_append(self.opt_blocks, padding_block.v),
                 !.num_opt_blocks = n.v])

KeyBlockHeader_finalize(b, self) ==
  LET block_size == IF self.version_id = S1("D") THEN 16 ELSE 8
      header_length == KeyBlockHeader_len(self)
      needed == block_size - (header_length % block_size)
      padding_needed == IF needed < 6 THEN needed + block_size ELSE needed
      padding_data_length == padding_needed - 4
      padding_block == OptBlock_new(S2("P", "B"), Rep("0", padding_data_length), <<>>)
      n == U8Add(b, self.num_opt_blocks + 1)
  IN  IF self.opt_blocks # <<>> /\ header_length % block_size # 0
      THEN IF padding_block.st # "ok" THEN ErrV(padding_block.e, self)
           ELSE IF n.st # "ok" THEN Panic
           ELSE Ok([self EXCEPT
                      !.opt_blocks = OptBlock_append(self.opt_blocks, padding_block.v),
                      !.num_opt_blocks = n.v])
      ELSE Ok(self)

\* the setter of the field f
KeyBlockHeader_set(self, f, value) ==
  IF f = "version_id" THEN KeyBlockHeader_set_version_id(self, value)
  ELSE IF f = "kb_length" THEN KeyBlockHeader_set_kb_length(self, value)
  ELSE IF f = "key_usage" THEN KeyBlockHeader_set_key_usage(self, value)
  ELSE IF f = "algorithm" THEN KeyBlockHeader_set_algorithm(self, value)
  ELSE IF f = "mode_of_use" THEN KeyBlockHeader_set_mode_of_use(self, value)
  ELSE IF f = "key_version_number"
       THEN KeyBlockHeader_set_key_version_number(self, value)
  ELSE IF f = "exportability" THEN KeyBlockHeader_set_exportability(self, value)
  ELSE IF f = "num_optional_blocks"
       THEN KeyBlockHeader_set_num_optional_blocks(self, value)
  ELSE KeyBlockHeader_set_reserved_field(self, value)

RECURSIVE KeyBlockHeader_set_each(_, _)
\* header.set_..(..)?; header.set_..(..)?; ... : the setters of the steps
\* <<field, value>> in order, up to the first that fails
KeyBlockHeader_set_each(self, steps) ==
  IF steps = <<>> THEN Ok(self)
  ELSE Only({ IF r.st # "ok" THEN Err(r.e)
              ELSE KeyBlockHeader_set_each(r.v, Tail(steps)) :
              r \in {KeyBlockHeader_set(self, steps[1][1], steps[1][2])} })

KeyBlockHeader_new_with_values(version_id, key_usage, algorithm, mode_of_use, key_version_number, exportability) ==
  KeyBlockHeader_set_each(KeyBlockHeader_new_empty,
    << <<"version_id", version_id>>, <<"key_usage", key_usage>>,
       <<"algorithm", algorithm>>, <<"mode_of_use", mode_of_use>>,
       <<"key_version_number", key_version_number>>,
       <<"exportability", exportability>> >>)

\* header is the Result of the setters: the optional blocks, if any are declared
KeyBlockHeader_new_from_str_blocks(s, num_optional_blocks, header) ==
  IF header.st # "ok" THEN header
  ELSE IF num_optional_blocks > 0 /\ SLen(s) < 20
       THEN Err("ERROR TR-31 HEADER: Invalid header length containing optional blocks")
  ELSE IF num_optional_blocks > 0
       THEN Only({ IF opt_block_res.st = "panic" THEN Panic
                   ELSE IF opt_block_res.st # "ok"
                   THEN Err("ERROR TR-31 HEADER: Failed to parse optional blocks")
                   ELSE Ok([header.v EXCEPT !.opt_blocks = opt_block_res.v]) :
                   opt_block_res \in {OptBlock_new_from_str(Drop(s, 16),
                                                            num_optional_blocks)} })
  ELSE header

KeyBlockHeader_new_from_str(header_str) ==
  LET s == header_str
      kb_length == FromStrRadix(Slice(s, 1, 5), 10)
      num_optional_blocks == FromStrRadix(Slice(s, 12, 14), 10)
  IN  IF SLen(s) < 16 THEN Err("ERROR TR-31 HEADER: Invalid data length")
      ELSE IF ~SliceOk(s, 0, 1) \/ ~SliceOk(s, 1, 5) THEN Panic
      ELSE IF kb_length < 0 THEN Err("ERROR TR-31 HEADER: Invalid key block length")
      ELSE IF \E k \in {5, 7, 8, 9, 11, 12, 14} : ~IsBoundary(s, k) THEN Panic
      ELSE IF num_optional_blocks < 0
           THEN Err("ERROR TR-31 HEADER: Invalid number of optional blocks")
      ELSE IF ~SliceOk(s, 14, 16) THEN Panic
      ELSE Only({ KeyBlockHeader_new_from_str_blocks(s, num_optional_blocks, header) :
                    header \in {KeyBlockHeader_set_each(KeyBlockHeader_new_empty,
                      << <<"version_id", Slice(s, 0, 1)>>, <<"kb_length", kb_length>>,
                         <<"key_usage", Slice(s, 5, 7)>>, <<"algorithm", Slice(s, 7, 8)>>,
                         <<"mode_of_use", Slice(s, 8, 9)>>,
                         <<"key_version_number", Slice(s, 9, 11)>>,
                         <<"exportability", Slice(s, 11, 12)>>,
                         <<"num_optional_blocks", num_optional_blocks>>,
                         <<"reserved_field", Slice(s, 14, 16)>> >>)} })

KeyBlockHeader_export_str(self) ==
  LET fixed ==
        Cat3(Cat3(self.version_id, Fmt(self.kb_length, 10, 4), self.key_usage),
             Cat3(self.algorithm, self.mode_of_use, self.key_version_number),
             Cat3(self.exportability, Fmt(self.num_opt_blocks, 10, 2),
                  self.reserved_field))
      opt == OptBlock_export_str(self.opt_blocks)
  IN  IF \/ self.version_id = <<>> \/ self.key_usage = <<>> \/ self.algorithm = <<>>
         \/ self.mode_of_use = <<>> \/ self.key_version_number = <<>>
         \/ self.exportability = <<>> \/ self.reserved_field = <<>>
         \/ self.kb_length = 0
      THEN Err("ERROR TR-31 HEADER: Export failed due to empty field(s) or zero length")
      ELSE IF self.opt_blocks # <<>>
           THEN IF opt.st # "ok" THEN opt ELSE Ok(Cat(fixed, opt.v))
      ELSE Ok(fixed)

\* ------------------------------------------- the external primitives
\* soft_aes (AES-CMAC, AES-CBC without padding) and hex are not part of the
\* repository.  They are modelled by what the engine relies on: the CMAC is a
\* keyed 16-byte function of every byte of its input and of its position,
\* CBC encryption is a keyed bijection chained from the IV, and decryption
\* with the same key and IV inverts it.  The CMAC of the key derivation inputs
\* is AES-CMAC itself; the arithmetic of the others is a stand-in for AES.

TR31_D_MAC_LEN == 16
TR31_D_BLOCK_LEN == 16

AesKeyLenOk(key) == SLen(key) \in {16, 24, 32}

RECURSIVE SumTerms(_, _, _)
\* the sum of the terms lo..hi of f, modulo 257
SumTerms(f, lo, hi) ==
  IF lo > hi THEN 0
  ELSE IF lo = hi THEN f[lo]
  ELSE (SumTerms(f, lo, (lo + hi) \div 2) + SumTerms(f, ((lo + hi) \div 2) + 1, hi)) % 257

\* the number of elements of run k of x, and the offset it starts at
RunLen(x, k) == x[k][2] - (IF k = 1 THEN 0 ELSE x[k - 1][2])
RunStart(x, k) == IF k = 1 THEN 0 ELSE x[k - 1][2]

\* the sum of the positions 1-based of run k of x, modulo 257
RunPositions(x, k) ==
  LET n == RunLen(x, k)
      m == n % 514
  IN  (((n % 257) * (RunStart(x, k) % 257)) + ((m * (m + 1)) \div 2)) % 257

\* the sum of the elements of x (each plus one), modulo 257
ByteSum(x) ==
  SumTerms([k \in 1..Len(x) |-> ((x[k][1] + 1) * (RunLen(x, k) % 257)) % 257], 1, Len(x))

\* the sum of the elements of x (each plus one) times their positions, modulo 257
WeightedSum(x) ==
  SumTerms([k \in 1..Len(x) |-> ((x[k][1] + 1) * RunPositions(x, k)) % 257], 1, Len(x))

\* the byte the key adds at offset j of a block
KeyByte(key, j) == (At(key, (j - 1) % SLen(key)) + 17 * j) % 256

RECURSIVE CbcEnc(_, _, _)
\* each block is encrypted with the ciphertext of the block before it, the
\* first with prev; the blocks are taken by halves, the second half chained
\* to the last ciphertext block of the first
CbcEnc(p, key, prev) ==
  IF p = <<>> THEN <<>>
  ELSE IF Len(p) = 16 THEN [j \in 1..16 |-> (p[j] + prev[j] + KeyByte(key, j)) % 256]
  ELSE Only({ c \o CbcEnc(SubSeq(p, Len(c) + 1, Len(p)), key,
                          SubSeq(c, Len(c) - 15, Len(c))) :
              c \in {CbcEnc(SubSeq(p, 1, 16 * (Len(p) \div 32)), key, prev)} })

RECURSIVE CbcDec(_, _, _)
\* each block is decrypted with the ciphertext of the block before it, the
\* first with prev; the blocks are taken by halves
CbcDec(c, key, prev) ==
  IF c = <<>> THEN <<>>
  ELSE IF Len(c) = 16
       THEN [j \in 1..16 |-> (c[j] + 512 - prev[j] - KeyByte(key, j)) % 256]
  ELSE CbcDec(SubSeq(c, 1, 16 * (Len(c) \div 32)), key, prev)
         \o CbcDec(SubSeq(c, (16 * (Len(c) \div 32)) + 1, Len(c)), key,
                   SubSeq(c, (16 * (Len(c) \div 32)) - 15, 16 * (Len(c) \div 32)))

\* soft_aes::aes::aes_enc_cbc(plaintext, key, iv, None)
AesEncCbc(plaintext, key, iv) ==
  IF ~AesKeyLenOk(key) THEN Err("AES: invalid key length")
  ELSE IF SLen(plaintext) % 16 # 0 THEN Err("AES: length is not a multiple of 16")
  ELSE Ok(Str(CbcEnc(Plain(plaintext), key, Plain(iv))))

\* soft_aes::aes::aes_dec_cbc(ciphertext, key, iv, None)
AesDecCbc(ciphertext, key, iv) ==
  IF ~AesKeyLenOk(key) THEN Err("AES: invalid key length")
  ELSE IF SLen(ciphertext) % 16 # 0 THEN Err("AES: length is not a multiple of 16")
  ELSE Ok(Str(CbcDec(Plain(ciphertext), key, Plain(iv))))

\* hex::encode_upper
HexEncodeUpper(bytes) ==
  LET t == Plain(bytes)
  IN  Str([i \in 1..(2 * Len(t)) |->
             IF i % 2 = 1 THEN HexUpper[(t[(i + 1) \div 2] \div 16) + 1]
             ELSE HexUpper[(t[i \div 2] % 16) + 1]])

\* hex::decode: both cases of a letter are read
HexDecode(s) ==
  LET t == Plain(s)
  IN  IF SLen(s) % 2 # 0 THEN Err("hex: odd number of digits")
      ELSE IF \E c \in Elems(s) : DigitVal(c, 16) < 0 THEN Err("hex: invalid character")
      ELSE Ok(Str([i \in 1..(Len(t) \div 2) |->
                     16 * DigitVal(t[2 * i - 1], 16) + DigitVal(t[2 * i], 16)]))

\* ------------------------------------------------------------------ AES
\* soft_aes::aes computes AES (FIPS-197) and AES-CMAC (NIST SP 800-38B, RFC
\* 4493).  Its code is not part of the repository; the cipher is written out
\* from the standard, on sequences of bytes.

\* the substitution table of SubBytes (FIPS-197, figure 7)
SBOX ==
  <<99, 124, 119, 123, 242, 107, 111, 197, 48, 1, 103, 43, 254, 215, 171, 118,
     202, 130, 201, 125, 250, 89, 71, 240, 173, 212, 162, 175, 156, 164, 114, 192,
     183, 253, 147, 38, 54, 63, 247, 204, 52, 165, 229, 241, 113, 216, 49, 21,
     4, 199, 35, 195, 24, 150, 5, 154, 7, 18, 128, 226, 235, 39, 178, 117,
     9, 131, 44, 26, 27, 110, 90, 160, 82, 59, 214, 179, 41, 227, 47, 132,
     83, 209, 0, 237, 32, 252, 177, 91, 106, 203, 190, 57, 74, 76, 88, 207,
     208, 239, 170, 251, 67, 77, 51, 133, 69, 249, 2, 127, 80, 60, 159, 168,
     81, 163, 64, 143, 146, 157, 56, 245, 188, 182, 218, 33, 16, 255, 243, 210,
     205, 12, 19, 236, 95, 151, 68, 23, 196, 167, 126, 61, 100, 93, 25, 115,
     96, 129, 79, 220, 34, 42, 144, 136, 70, 238, 184, 20, 222, 94, 11, 219,
     224, 50, 58, 10, 73, 6, 36, 92, 194, 211, 172, 98, 145, 149, 228, 121,
     231, 200, 55, 109, 141, 213, 78, 169, 108, 86, 244, 234, 101, 122, 174, 8,
     186, 120, 37, 46, 28, 166, 180, 198, 232, 221, 116, 31, 75, 189, 139, 138,
     112, 62, 181, 102, 72, 3, 246, 14, 97, 53, 87, 185, 134, 193, 29, 158,
     225, 248, 152, 17, 105, 217, 142, 148, 155, 30, 135, 233, 206, 85, 40, 223,
     140, 161, 137, 13, 191, 230, 66, 104, 65, 153, 45, 15, 176, 84, 187, 22>>

RECURSIVE XorBits(_, _, _)
\* the exclusive or of the n low bits of a and b
XorBits(a, b, n) ==
  IF n = 0 THEN 0 ELSE ((a + b) % 2) + 2 * XorBits(a \div 2, b \div 2, n - 1)

\* the exclusive or of two nibbles, as a table
XorNibble == [i \in 1..16 |-> [j \in 1..16 |-> XorBits(i - 1, j - 1, 4)] \o <<>>] \o <<>>

\* the exclusive or of two bytes
Xor8(a, b) ==
  16 * XorNibble[(a \div 16) + 1][(b \div 16) + 1] + XorNibble[(a % 16) + 1][(b % 16) + 1]

\* the exclusive or of two sequences of bytes of one length
XorBytes(x, y) == [i \in 1..Len(x) |-> Xor8(x[i], y[i])] \o <<>>

\* the product with x in GF(2^8) modulo x^8 + x^4 + x^3 + x + 1
XTime(a) == IF a < 128 THEN 2 * a ELSE Xor8((2 * a) % 256, 27)

SubBytes(s) == [i \in 1..Len(s) |-> SBOX[s[i] + 1]] \o <<>>

\* row r of the state, the bytes r, r + 4, r + 8, r + 12, is rotated by r
ShiftRows(s) ==
  [i \in 1..16 |-> s[((i - 1) % 4) + 4 * ((((i - 1) \div 4) + ((i - 1) % 4)) % 4) + 1]] \o <<>>

\* a column times the matrix 02 03 01 01 / 01 02 03 01 / 01 01 02 03 / 03 01 01 02
MixColumn(a) ==
  <<Xor8(Xor8(XTime(a[1]), Xor8(XTime(a[2]), a[2])), Xor8(a[3], a[4])),
    Xor8(Xor8(a[1], XTime(a[2])), Xor8(Xor8(XTime(a[3]), a[3]), a[4])),
    Xor8(Xor8(a[1], a[2]), Xor8(XTime(a[3]), Xor8(XTime(a[4]), a[4]))),
    Xor8(Xor8(Xor8(XTime(a[1]), a[1]), a[2]), Xor8(a[3], XTime(a[4])))>>

MixColumns(s) ==
  MixColumn(SubSeq(s, 1, 4)) \o MixColumn(SubSeq(s, 5, 8))
    \o MixColumn(SubSeq(s, 9, 12)) \o MixColumn(SubSeq(s, 13, 16))

RECURSIVE KeyWords(_, _, _, _)
\* the first k words of the nk words of the key schedule that follow the nk
\* words g, rc being the round constant of the first of them
KeyWords(g, nk, rc, k) ==
  IF k = 0 THEN <<>>
  ELSE Only({ before \o XorBytes(SubSeq(g, 4 * k - 3, 4 * k),
                IF k = 1
                THEN XorBytes(SubBytes(<<g[4 * nk - 2], g[4 * nk - 1], g[4 * nk],
                                         g[4 * nk - 3]>>), <<rc, 0, 0, 0>>)
                ELSE IF nk > 6 /\ k = 5
                THEN SubBytes(SubSeq(before, Len(before) - 3, Len(before)))
                ELSE SubSeq(before, Len(before) - 3, Len(before))) :
              before \in {KeyWords(g, nk, rc, k - 1)} })

RECURSIVE KeySchedule(_, _, _, _)
\* the words g and the n groups of nk words that follow them
KeySchedule(g, nk, rc, n) ==
  IF n = 0 THEN g
  ELSE Only({ g \o KeySchedule(h, nk, XTime(rc), n - 1) : h \in {KeyWords(g, nk, rc, nk)} })

\* KeyExpansion: the round keys 0..Nr of a key of 16, 24 or 32 bytes
KeyExpansion(key) ==
  Only({ SubSeq(w, 1, 16 * ((Len(key) \div 4) + 7)) :
         w \in {KeySchedule(key, Len(key) \div 4, 1,
                           (4 * ((Len(key) \div 4) + 7) - 1) \div (Len(key) \div 4))} })

RECURSIVE AesRounds(_, _, _, _)
\* the rounds r..nr of the cipher on the state s, w being the round keys
AesRounds(s, w, r, nr) ==
  IF r > nr THEN s
  ELSE Only({ AesRounds(t, w, r + 1, nr) :
              t \in { XorBytes(IF r = nr THEN ShiftRows(SubBytes(s))
                               ELSE MixColumns(ShiftRows(SubBytes(s))),
                               SubSeq(w, 16 * r + 1, 16 * r + 16)) } })

\* Cipher: the encryption of the block of 16 bytes under the round keys w
AesEncryptBlock(w, block) ==
  AesRounds(XorBytes(block, SubSeq(w, 1, 16)), w, 1, (Len(w) \div 16) - 1)

\* the subkey that follows b: b shifted left by one bit, and the constant 87
\* added to its last byte when a bit was shifted out
CmacDouble(b) ==
  [i \in 1..16 |->
     Xor8(((2 * b[i]) % 256) + (IF i < 16 THEN b[i + 1] \div 128 ELSE 0),
          IF i = 16 /\ b[1] >= 128 THEN 135 ELSE 0)] \o <<>>

\* the last block of the message m: a whole block with the first subkey, any
\* other completed with 80 00 .. 00 and with the second subkey
CmacLast(m, k1) ==
  IF Len(m) = 16 THEN XorBytes(m, k1)
  ELSE XorBytes(m \o <<128>> \o [i \in 1..(15 - Len(m)) |-> 0], CmacDouble(k1))

RECURSIVE CmacChain(_, _, _, _)
\* the MAC of the message m after the chaining value x
CmacChain(m, w, k1, x) ==
  IF Len(m) <= 16 THEN AesEncryptBlock(w, XorBytes(x, CmacLast(m, k1)))
  ELSE Only({ CmacChain(SubSeq(m, 17, Len(m)), w, k1, y) :
              y \in {AesEncryptBlock(w, XorBytes(x, SubSeq(m, 1, 16)))} })

ZeroBlock == [i \in 1..16 |-> 0] \o <<>>

\* AES-CMAC of the bytes data under the key of 16, 24 or 32 bytes
AesCmacExact(data, key) ==
  Only({ CmacChain(data, w, CmacDouble(AesEncryptBlock(w, ZeroBlock)), ZeroBlock) :
         w \in {KeyExpansion(key)} })

\* ------------------------------------------------- ISO 9564 format 3
\* A [u8; 8] field is a tuple of 8 bytes.

ISO3_PIN_BLOCK_LENGTH == 8

\* s.chars(): a character is named by its first byte
Chars(s) == SelectSeq(Plain(s), LAMBDA c : c \notin {CONT, NUM_CONT})

\* char::is_numeric
IsNumeric(c) == DigitVal(c, 10) >= 0 \/ c = NUM_LEAD

\* utils::xor_byte_arrays
xor_byte_arrays(a, b) ==
  IF Len(a) # Len(b) THEN Err("Arrays must be of the same length")
  ELSE Ok([i \in 1..Len(a) |-> Xor8(a[i], b[i])] \o <<>>)

\* utils::transform_nibble
transform_nibble(nibble) ==
  IF nibble <= 5 THEN nibble + 10
  ELSE IF nibble <= 9 THEN nibble + 6
  ELSE nibble

\* utils::transform_nibbles_to_af, on a tuple of bytes
transform_nibbles_to_af(input) ==
  [i \in 1..Len(input) |->
     16 * transform_nibble(input[i] \div 16) + transform_nibble(input[i] % 16)] \o <<>>

\* byte j (0-based, 1..7) of the PIN field: each nibble holds the PIN digit of
\* its position, or what the seed left there
PinFieldByte(digits, seeded, j) ==
  16 * (IF 2 * (j - 1) < Len(digits) THEN DigitVal(digits[2 * (j - 1) + 1], 10)
        ELSE seeded[j + 1] \div 16)
    + (IF 2 * (j - 1) + 1 < Len(digits) THEN DigitVal(digits[2 * (j - 1) + 2], 10)
       ELSE seeded[j + 1] % 16)

encode_pin_field_iso_3(pin, rnd_seed) ==
  LET transformed_seed == transform_nibbles_to_af(Plain(rnd_seed))
      digits == Chars(pin)
  IN  IF SLen(pin) < 4 \/ SLen(pin) > 12 \/ \E i \in 1..Len(digits) : ~IsNumeric(digits[i])
      THEN Err("PIN BLOCK ISO 3 ERROR: PIN must be between 4 and 12 digits long")
      ELSE IF Len(transformed_seed) < ISO3_PIN_BLOCK_LENGTH
      THEN Err("PIN BLOCK ISO 3 ERROR: Insufficient seed length for PIN block")
      \* c.to_digit(10).unwrap()
      ELSE IF \E i \in 1..Len(digits) : DigitVal(digits[i], 10) < 0 THEN Panic
      \* pin_field[0] = 0x30 | pin.len() as u8
      ELSE Ok([i \in 1..8 |->
                 IF i = 1 THEN 48 + SLen(pin)
                 ELSE PinFieldByte(digits, transformed_seed, i - 1)] \o <<>>)

encode_pan_field_iso_3(pan) ==
  LET pan_last_12 == Chars(Slice(pan, SLen(pan) - 13, SLen(pan) - 1))
  IN  IF SLen(pan) < 13
      THEN Err("PIN BLOCK ISO 3 ERROR: PAN must be at least 13 digits long for ISO 3 encoding")
      ELSE IF ~SliceOk(pan, SLen(pan) - 13, SLen(pan) - 1) THEN Panic
      ELSE IF \E i \in 1..Len(pan_last_12) : DigitVal(pan_last_12[i], 10) < 0
      THEN Err("Invalid digit in PAN")
      ELSE Ok([i \in 1..8 |->
                 IF i <= 2 THEN 0
                 ELSE 16 * DigitVal(pan_last_12[2 * (i - 3) + 1], 10)
                        + DigitVal(pan_last_12[2 * (i - 3) + 2], 10)] \o <<>>)

encode_pinblock_iso_3(pin, pan, rnd_seed) ==
  LET pin_field == encode_pin_field_iso_3(pin, rnd_seed)
      pan_field == encode_pan_field_iso_3(pan)
  IN  IF pin_field.st # "ok" THEN pin_field
      ELSE IF pan_field.st # "ok" THEN pan_field
      ELSE xor_byte_arrays(pin_field.v, pan_field.v)

\* ------------------------------------------------------- key derivation

AES_128_KDI_KBEK == Str(<<1, 0, 0, 0, 0, 2, 0, 128>>)
\* a derivation input of the KBAK with the key usage of the KBEK
KdiKbakAsKbek == Str(<<1, 0, 0, 0, 0, 2, 0, 128>>)
AES_128_KDI_KBAK == Str(<<1, 0, 1, 0, 0, 2, 0, 128>>)
AES_192_KDI_KBEK_1 == Str(<<1, 0, 0, 0, 0, 3, 0, 192>>)
AES_192_KDI_KBEK_2 == Str(<<2, 0, 0, 0, 0, 3, 0, 192>>)
AES_192_KDI_KBAK_1 == Str(<<1, 0, 1, 0, 0, 3, 0, 192>>)
AES_192_KDI_KBAK_2 == Str(<<2, 0, 1, 0, 0, 3, 0, 192>>)
AES_256_KDI_KBEK_1 == Str(<<1, 0, 0, 0, 0, 4, 1, 0>>)
AES_256_KDI_KBEK_2 == Str(<<2, 0, 0, 0, 0, 4, 1, 0>>)
AES_256_KDI_KBAK_1 == Str(<<1, 0, 1, 0, 0, 4, 1, 0>>)
AES_256_KDI_KBAK_2 == Str(<<2, 0, 1, 0, 0, 4, 1, 0>>)

\* the key derivation inputs of a KBPK of n bytes
KdiOf(n) ==
  IF n = 16 THEN {AES_128_KDI_KBEK, AES_128_KDI_KBAK}
  ELSE IF n = 24
  THEN {AES_192_KDI_KBEK_1, AES_192_KDI_KBEK_2, AES_192_KDI_KBAK_1, AES_192_KDI_KBAK_2}
  ELSE {AES_256_KDI_KBEK_1, AES_256_KDI_KBEK_2, AES_256_KDI_KBAK_1, AES_256_KDI_KBAK_2}

\* the KBPK of n bytes 00 11 22 .. FF 10 21 ..
Kbpk(n) == Str([i \in 1..n |-> (17 * (i - 1)) % 256])

\* byte patterns of the KBPKs handed to derive_keys_version_d
DeriveKeys == 17

\* the KBPKs handed to derive_keys_version_d: the lengths AES has, the lengths
\* next to them and none, the bytes 0, m, 2m, ..; m = 17 is 00 11 22 .. FF
DeriveLens == {0, 15, 16, 17, 24, 31, 32, 33}
DeriveInputs ==
  { Str([i \in 1..n |-> (m * (i - 1)) % 256]) : n \in DeriveLens, m \in 1..DeriveKeys }

\* the AES-CMAC of the byte vector data under the byte vector key
ExactMac(data, key) ==
  Only({ Str(mac) \o <<>> : mac \in {AesCmacExact(Plain(data), Plain(key))} })

\* AES-CMAC is a pure function: its values <<data, key, mac>> on the key
\* derivation inputs of every KBPK of 16, 24 or 32 bytes, computed once
ExactMacs ==
  { <<d, k, ExactMac(d, k)>> :
      <<d, k>> \in UNION { KdiOf(SLen(k)) \X {k} :
                            k \in {x \in DeriveInputs : AesKeyLenOk(x)} } }

\* a MAC that covers the length of its input and none of its bytes
AesCmacOfLength(data, key) ==
  IF ~AesKeyLenOk(key) THEN Err("AES: invalid key length")
  ELSE Ok(Str([j \in 1..16 |->
                 ((SLen(data) % 257) + 7 * ((ByteSum(key) + (j + 16) * WeightedSum(key)) % 257)
                    + 3 * j) % 256]))

\* the stand-in: a keyed 16-byte function of every byte of data and of its
\* position
AesCmacStandIn(data, key) ==
  Only({ Str([j \in 1..16 |->
                (((s[1] + j * s[2]) % 257) + 7 * ((s[3] + (j + 16) * s[4]) % 257) + 3 * j)
                  % 256]) :
         s \in {<<ByteSum(data), WeightedSum(data), ByteSum(key), WeightedSum(key)>>} })

\* a is <<data, key>>
AesCmacOf(a) ==
  IF ~AesKeyLenOk(a[2]) THEN Err("AES: invalid key length")
  ELSE Only({ IF known # {} THEN Ok(Only(known)[3]) ELSE Ok(AesCmacStandIn(a[1], a[2])) :
              known \in {{m \in ExactMacs : m[1] = a[1] /\ m[2] = a[2]}} })

\* soft_aes::aes::aes_cmac: AES-CMAC itself on the key derivation inputs, on
\* other data the stand-in
AesCmac(data, key) == Only({AesCmacOf(a) : a \in {<<data, key>>}})

\* Ok(<<kbek, kbak>>) or Err
derive_keys_version_d(kbpk) ==
  IF SLen(kbpk) = 16
  THEN Ok(<<AesCmac(AES_128_KDI_KBEK, kbpk).v, AesCmac(AES_128_KDI_KBAK, kbpk).v>>)
  ELSE IF SLen(kbpk) = 24
  THEN Ok(<<Take(Cat(AesCmac(AES_192_KDI_KBEK_1, kbpk).v,
                     AesCmac(AES_192_KDI_KBEK_2, kbpk).v), 24),
            Take(Cat(AesCmac(AES_192_KDI_KBAK_1, kbpk).v,
                     AesCmac(AES_192_KDI_KBAK_2, kbpk).v), 24)>>)
  ELSE IF SLen(kbpk) = 32
  THEN Ok(<<Cat(AesCmac(AES_256_KDI_KBEK_1, kbpk).v, AesCmac(AES_256_KDI_KBEK_2, kbpk).v),
            Cat(AesCmac(AES_256_KDI_KBAK_1, kbpk).v, AesCmac(AES_256_KDI_KBAK_2, kbpk).v)>>)
  ELSE Err("ERROR TR-31: Invalid KBPK length")

\* -------------------------------------------------------------- payload

calculate_padding_length(key_len, masked_key_length, cipher_block_length) ==
  LET raw_key_section_length == 2 + key_len
      effective_key_length == IF key_len >= masked_key_length THEN key_len
                              ELSE masked_key_length
      total_payload_length ==
        ((2 + effective_key_length + (cipher_block_length - 1)) \div cipher_block_length)
          * cipher_block_length
  IN  IF total_payload_length < raw_key_section_length
      THEN Err("ERROR TR-31 PAYLOAD: Invalid total payload length")
      ELSE Ok(total_payload_length - raw_key_section_length)

\* b is the build: 8 * key_len as u16 overflows u16 from 8192 bytes on
construct_payload(b, key, masked_key_length, cipher_block_length, random_seed) ==
  LET key_len == SLen(key)
      padding_length == calculate_padding_length(key_len, masked_key_length,
                                                 cipher_block_length)
      bits == 8 * (key_len % 65536)
      be == Str(<<(bits % 65536) \div 256, bits % 256>>)
  IN  IF padding_length.st # "ok" THEN padding_length
      ELSE IF bits > 65535 /\ b = "debug" THEN Panic
      ELSE IF SLen(random_seed) < padding_length.v
           THEN Err("ERROR TR-31 PAYLOAD: The provided random seed is too short")
      ELSE Ok(Cat3(be, key, Take(random_seed, padding_length.v)))

extract_key_from_payload(payload) ==
  LET key_length_bits == 256 * At(payload, 0) + At(payload, 1)
      key_length_bytes == key_length_bits \div 8
  IN  IF SLen(payload) < 2
      THEN Err("ERROR TR-31 PAYLOAD: Payload too short to contain valid key length")
      ELSE IF SLen(payload) < 2 + key_length_bytes
           THEN Err("ERROR TR-31 PAYLOAD: Payload too short for the specified key length")
      ELSE Ok(Slice(payload, 2, 2 + key_length_bytes))

\* ------------------------------------------------- tr31_wrap, tr31_unwrap

\* a wrap that keeps the length the caller's header carries, if it carries one
WrapKeepKbLength(header, total_block_length) ==
  IF header.kb_length # 0 THEN Ok(header)
  ELSE KeyBlockHeader_set_kb_length(header, total_block_length % 65536)

\* total_block_length as u16, then header.set_kb_length(..)
WrapSetKbLength(header, total_block_length) ==
  KeyBlockHeader_set_kb_length(header, total_block_length % 65536)

\* the MAC input of tr31_wrap: the header's characters, then the payload
WrapMacInput(header_str, payload) == Cat(AsBytes(header_str), payload)

\* a MAC step that computes the CMAC under the KBEK
tr31_wrap_mac_kbek(keys, payload, header_str) ==
  IF header_str.st # "ok" THEN header_str
  ELSE Ok(Cat3(header_str.v,
               HexEncodeUpper(AesEncCbc(payload, keys[1],
                                        AesCmac(WrapMacInput(header_str.v, payload),
                                                keys[1]).v).v),
               HexEncodeUpper(AesCmac(WrapMacInput(header_str.v, payload), keys[1]).v)))

\* tr31_wrap is written as its steps in source order, each handing the values
\* it has computed to the next.

\* hex-encode the ciphertext and the MAC and assemble the key block
tr31_wrap_assemble(header_str, mac, encrypted_payload) ==
  IF encrypted_payload.st # "ok" THEN encrypted_payload
  ELSE Ok(Cat3(header_str, HexEncodeUpper(encrypted_payload.v), HexEncodeUpper(mac)))

\* the MAC is the IV of the CBC encryption of the payload under the KBEK
tr31_wrap_encrypt(keys, payload, header_str, mac) ==
  IF mac.st # "ok" THEN mac
  ELSE tr31_wrap_assemble(header_str, mac.v,
                          AesEncCbc(payload, keys[1], Take(mac.v, TR31_D_MAC_LEN)))

\* the CMAC under the KBAK over the header and the payload
tr31_wrap_mac(keys, payload, header_str) ==
  IF header_str.st # "ok" THEN header_str
  ELSE tr31_wrap_encrypt(keys, payload, header_str.v,
                         AesCmac(WrapMacInput(header_str.v, payload), keys[2]))

\* export the header that carries the total length
tr31_wrap_export(keys, payload, updated) ==
  IF updated.st # "ok" THEN Err(updated.e)
  ELSE tr31_wrap_mac(keys, payload, KeyBlockHeader_export_str(updated.v))

\* the total length must be a multiple of the block length
tr31_wrap_length(header, keys, payload, total_block_length) ==
  IF total_block_length % TR31_D_BLOCK_LEN # 0
  THEN Err("ERROR TR-31: Total block length is not a multiple of block length")
  ELSE tr31_wrap_export(keys, payload, WrapSetKbLength(header, total_block_length))

\* keys is the Result of the key derivation, payload that of construct_payload
tr31_wrap_payload(header, keys, payload) ==
  IF keys.st # "ok" THEN keys
  ELSE IF payload.st # "ok" THEN payload
  ELSE tr31_wrap_length(header, keys.v, payload.v,
                        KeyBlockHeader_len(header) + (SLen(payload.v) * 2)
                          + (TR31_D_MAC_LEN * 2))

\* a wrap that derives the keys and builds the payload before it looks at the
\* version
tr31_wrap_keys_first(b, kbpk, header, key, masked_key_len, random_seed) ==
  Only({ IF keys.st # "ok" THEN keys
         ELSE IF payload.st # "ok" THEN payload
         ELSE IF header.version_id # S1("D")
         THEN Err("ERROR TR-31: Key block version not supported by implementation")
         ELSE tr31_wrap_payload(header, keys, payload) :
         <<keys, payload>> \in
           {derive_keys_version_d(kbpk)}
             \X {construct_payload(b, key, masked_key_len, TR31_D_BLOCK_LEN, random_seed)} })

tr31_wrap(b, kbpk, header, key, masked_key_len, random_seed) ==
  IF header.version_id # S1("D")
  THEN Err("ERROR TR-31: Key block version not supported by implementation")
  ELSE tr31_wrap_payload(header, derive_keys_version_d(kbpk),
                         construct_payload(b, key, masked_key_len, TR31_D_BLOCK_LEN,
                                           random_seed))

tr31_wrap_with_header_string(b, header_str, kbpk, key, masked_key_len, random_seed) ==
  Only({ IF header.st # "ok" THEN header
         ELSE tr31_wrap(b, kbpk, header.v, key, masked_key_len, random_seed) :
         header \in {KeyBlockHeader_new_from_str(header_str)} })

\* The result of tr31_unwrap: st, e as for every Result, v the pair
\* [header, key] of an Ok, and three observations of the call: `at` the last
\* step it ran, `mac` the transmitted MAC and `calc` the recomputed one once
\* the call has computed them.
Unwrapped(r, at, mac, calc) ==
  [st |-> r.st, e |-> r.e, v |-> r.v, at |-> at, mac |-> mac, calc |-> calc]

\* a version check that turns away version A alone
UnwrapVersionOnlyA(header) == header.version_id = S1("A")

\* header.version_id() != "D"
UnwrapVersionUnsupported(header) == header.version_id # S1("D")

\* the MAC input of tr31_unwrap: key_block[..header_len], then the payload
UnwrapMacInput(key_block, header_len, decrypted_payload) ==
  Cat(AsBytes(Take(key_block, header_len)), decrypted_payload)

\* a comparison that lets every MAC pass
MacMatchesAny(mac, calculated_mac) == TRUE

\* mac != calculated_mac, negated
MacMatches(mac, calculated_mac) == mac = calculated_mac

\* tr31_unwrap is written as its steps in source order, as tr31_wrap is.

\* extract the key from the authenticated payload
tr31_unwrap_extract(header, mac, calculated_mac, key) ==
  IF key.st # "ok" THEN Unwrapped(key, "extract", mac, calculated_mac)
  ELSE Unwrapped(Ok([header |-> header, key |-> key.v]), "extract", mac, calculated_mac)

\* compare the transmitted MAC with the recomputed one
tr31_unwrap_verify(header, mac, decrypted_payload, calculated_mac) ==
  IF calculated_mac.st # "ok" THEN Unwrapped(calculated_mac, "cmac", mac, <<>>)
  ELSE IF ~MacMatches(mac, calculated_mac.v)
       THEN Unwrapped(Err("ERROR TR-31: MAC check failed"), "mac", mac, calculated_mac.v)
  ELSE tr31_unwrap_extract(header, mac, calculated_mac.v,
                           extract_key_from_payload(decrypted_payload))

\* recompute the CMAC under the KBAK over the header and the decrypted payload
tr31_unwrap_mac(key_block, header, header_len, keys, mac, decrypted_payload) ==
  IF decrypted_payload.st # "ok" THEN Unwrapped(decrypted_payload, "decrypt", mac, <<>>)
  ELSE tr31_unwrap_verify(header, mac, decrypted_payload.v,
                          AesCmac(UnwrapMacInput(key_block, header_len,
                                                 decrypted_payload.v), keys[2]))

\* decrypt the payload under the KBEK with the transmitted MAC as the IV
tr31_unwrap_decrypt(key_block, header, header_len, keys, encrypted_payload, mac) ==
  IF keys.st # "ok" THEN Unwrapped(keys, "derive", <<>>, <<>>)
  ELSE IF encrypted_payload.st # "ok"
       THEN Unwrapped(encrypted_payload, "decode", <<>>, <<>>)
  ELSE IF mac.st # "ok" THEN Unwrapped(mac, "decode", <<>>, <<>>)
  ELSE tr31_unwrap_mac(key_block, header, header_len, keys.v, mac.v,
                       AesDecCbc(encrypted_payload.v, keys.v[1],
                                 Take(mac.v, TR31_D_MAC_LEN)))

\* slice the ciphertext and the MAC, derive the keys, decode the hex
tr31_unwrap_split(kbpk, key_block, header, header_len, mac_start) ==
  IF ~SliceOk(key_block, header_len, mac_start)
  THEN Unwrapped(Panic, "slice", <<>>, <<>>)
  ELSE tr31_unwrap_decrypt(key_block, header, header_len, derive_keys_version_d(kbpk),
                           HexDecode(Slice(key_block, header_len, mac_start)),
                           HexDecode(Drop(key_block, mac_start)))

\* header is the Result of the parse of the key block's header
tr31_unwrap_checks(kbpk, key_block, header) ==
  IF header.st # "ok" THEN Unwrapped(header, "header", <<>>, <<>>)
  ELSE IF SLen(key_block) # header.v.kb_length
       THEN Unwrapped(Err("ERROR TR-31: Key block length does not match its length in the header"),
                      "length", <<>>, <<>>)
  ELSE IF SLen(key_block) < 16 + 2 * TR31_D_BLOCK_LEN + 2 * TR31_D_MAC_LEN
       THEN Unwrapped(Err("ERROR TR-31: Key block length is below minimum required length"),
                      "minimum", <<>>, <<>>)
  ELSE IF UnwrapVersionUnsupported(header.v)
       THEN Unwrapped(Err("ERROR TR-31: Key block version not supported by implementation"),
                      "version", <<>>, <<>>)
  ELSE tr31_unwrap_split(kbpk, key_block, header.v, KeyBlockHeader_len(header.v),
                         SLen(key_block) - TR31_D_MAC_LEN * 2)

tr31_unwrap(kbpk, key_block) ==
  Only({ tr31_unwrap_checks(kbpk, key_block, header) :
         header \in {KeyBlockHeader_new_from_str(key_block)} })

\* ================================================================ model
\* --------------------------------------------------------------- bounds

\* bytes of the key a call wraps
KeyLen == 16
\* bytes of the long key, whose bit length does not fit 16 bits
BigKeyLen == 8192
\* the masked key length a call asks for, beside 0
MaskLen == 32
\* bytes of the long random seed
SeedLen == 46
\* characters of data in each block of the long optional-block chain
BigData == 32758
\* characters of data of the one block of the wide header, with which the
\* key block of a payload of BigKeyLen bytes is 65552 characters long
WideData == 49078
\* calls in one run of the header interface
MaxOps == 3
\* nodes of the longest chain built node by node
MaxNodes == 3
\* characters of data of a block just below the extended length field, and
\* of one just beyond
ShortData == 251
LongData == 252
\* characters of data of a parsed block whose extended length field says 256
MarkedData == 246
\* characters of data that make a block longer than 65535
TooLongData == 65526

\* --------------------------------------------------------------- inputs

Kbpks == {Kbpk(16), Kbpk(24), Kbpk(32), Kbpk(15)}

KeyOf(n) == Str([i \in 1..n |-> (37 * i) % 256])
LongSeed == Rep(28, SeedLen)

\* the arguments <<kbpk, key, masked_key_len, random_seed>> of the wrap calls:
\* each KBPK length with and without masking, a KBPK of no AES length, a key
\* whose bit length does not fit 16 bits, a seed shorter than the padding, and
\* that seed with the KBPK of no AES length
WrapCalls ==
  { <<Kbpk(16), KeyOf(KeyLen), 0, LongSeed>>,
    <<Kbpk(24), KeyOf(KeyLen), MaskLen, LongSeed>>,
    <<Kbpk(32), KeyOf(KeyLen), 0, LongSeed>>,
    <<Kbpk(15), KeyOf(KeyLen), 0, LongSeed>>,
    <<Kbpk(16), Rep(0, BigKeyLen), 0, LongSeed>>,
    <<Kbpk(16), KeyOf(KeyLen), MaskLen, Rep(28, 2)>>,
    <<Kbpk(15), KeyOf(KeyLen), MaskLen, Rep(28, 2)>> }

\* the arguments of the wrap calls whose key is then replaced by another:
\* without masking, masked to the length of the key, to MaskLen and to the
\* length of the long key
MaskCalls ==
  { <<Kbpk(16), KeyOf(KeyLen), 0, LongSeed>>,
    <<Kbpk(24), KeyOf(KeyLen), KeyLen, LongSeed>>,
    <<Kbpk(16), KeyOf(1), MaskLen, LongSeed>>,
    <<Kbpk(32), KeyOf(KeyLen), MaskLen, LongSeed>>,
    <<Kbpk(16), KeyOf(KeyLen), BigKeyLen, Rep(28, BigKeyLen)>> }

\* the keys wrapped in the place of the key of a wrap call
OtherKeys == {KeyOf(1), KeyOf(MaskLen), KeyOf(MaskLen + 1), Rep(0, BigKeyLen)}

SomeData == Str(<<"S", "o", "m", "e", "D", "a", "t", "a">>)
ChainCT == OptBlock_new(S2("C", "T"), SomeData, <<>>).v
ChainKS == OptBlock_new(S2("K", "S"), Rep("1", 4),
                        OptBlock_new(S2("T", "S"), Rep("2", 4), <<>>).v).v
ChainBig == OptBlock_new(S2("C", "T"), Rep("x", BigData),
                         OptBlock_new(S2("K", "S"), Rep("y", BigData), <<>>).v).v
ChainWide == OptBlock_new(S2("C", "T"), Rep("x", WideData), <<>>).v
Chains == {ChainCT, ChainBig}
\* the arguments <<key, masked_key_length, random_seed>> of the calls of
\* construct_payload: keys around the block length and the masked length, and
\* around the longest key whose bit length fits 16 bits
PayloadKeys ==
  {KeyOf(n) : n \in {0, 1, 24} \cup ((KeyLen - 3)..KeyLen) \cup ((MaskLen - 2)..(MaskLen + 1))}
    \cup {Rep(0, BigKeyLen - 1), Rep(0, BigKeyLen)}
PayloadCalls == PayloadKeys \X {0, KeyLen, MaskLen} \X {<<>>, Rep(28, KeyLen - 1), LongSeed}

\* the <<id, data>> of the blocks a chain is built of, node by node
BlockInputs ==
  {S2("C", "T"), S2("P", "B")}
    \X {<<>>, SomeData, Rep("x", ShortData), Rep("x", LongData)}

\* the text of a block with the ordinary length field
OrdinaryBlock(id, data) == Cat3(id, Fmt(4 + SLen(data), 16, 2), data)

\* the text of a block of n characters c with the extended length field
ExtendedBlock(id, c, n) ==
  Cat3(id, Cat(Str(<<"0", "0", "0", "2">>), Fmt(10 + n, 16, 4)), Rep(c, n))

\* the <<s, num_opt_blocks>> handed to OptBlock::new_from_str: one, two and
\* three blocks; a first block with the extended length field, announcing
\* 256, 261 and 262 characters, alone and followed by a block; an unknown
\* id, a length field below 4, a string shorter than its length field
ParseInputs ==
  { <<OrdinaryBlock(S2("C", "T"), SomeData), 1>>,
    <<Cat(OrdinaryBlock(S2("C", "T"), SomeData), OrdinaryBlock(S2("K", "S"), <<>>)), 1>>,
    <<Cat(OrdinaryBlock(S2("C", "T"), SomeData), OrdinaryBlock(S2("K", "S"), <<>>)), 2>>,
    <<Cat3(OrdinaryBlock(S2("C", "T"), Rep("x", ShortData)),
           OrdinaryBlock(S2("K", "S"), SomeData), OrdinaryBlock(S2("P", "B"), <<>>)), 3>>,
    <<ExtendedBlock(S2("C", "T"), "F", MarkedData), 1>>,
    <<Cat(ExtendedBlock(S2("C", "T"), "F", MarkedData),
          OrdinaryBlock(S2("K", "S"), SomeData)), 2>>,
    <<Cat(ExtendedBlock(S2("C", "T"), "F", ShortData),
          OrdinaryBlock(S2("K", "S"), SomeData)), 2>>,
    <<ExtendedBlock(S2("C", "T"), "F", LongData), 1>>,
    <<Cat(ExtendedBlock(S2("C", "T"), "F", LongData),
          OrdinaryBlock(S2("K", "S"), SomeData)), 2>>,
    <<Cat(ExtendedBlock(S2("C", "T"), "F", LongData),
          ExtendedBlock(S2("K", "S"), "F", LongData)), 2>>,
    <<OrdinaryBlock(S2("X", "X"), SomeData), 1>>,
    <<Str(<<"C", "T", "0", "3">>), 1>>,
    <<Cat(Str(<<"C", "T", "1", "0">>), SomeData), 1>>,
    <<OrdinaryBlock(S2("C", "T"), SomeData), 2>> }

\* the block linked behind a head whose setters are called
TailInputs == {<<S2("P", "B"), SomeData>>}

\* the ids handed to set_id: allowed, unknown, of one character
SetIds == {S2("K", "S"), S2("X", "X"), S1("C")}

\* the data handed to set_data: short, beyond the extended length field, not
\* ASCII, of the longest block and one character longer
SetDatas ==
  { SomeData, Rep("x", LongData), Cat(SomeData, Str(<<LEAD, CONT>>)),
    Rep("x", TooLongData - 1), Rep("x", TooLongData) }

\* n nodes CT, each linked to the next by set_next
ChainOf(n) == [i \in 1..n |-> ChainCT[1]]

\* the key block lengths a header can carry into a wrap call
KbLengths == {0, 1, 112, 9999}

FixedHeader(version, kb, rest) == Cat3(S1(version), Str(kb), Str(rest))
RestP0 == <<"P", "0", "A", "E", "0", "0", "E", "0", "0", "0", "0">>

\* a key block of 80 characters for version D: the fixed header, one block CT
\* with the length field len and data characters of data, and rest characters
ShortBlock(len, data, rest) ==
  Cat3(FixedHeader("D", <<"0", "0", "8", "0">>,
                   <<"P", "0", "A", "E", "0", "0", "E", "0", "1", "0", "0">>),
       Cat3(S2("C", "T"), Str(len), Rep("x", data)), Rep("0", rest))

\* key block strings handed to tr31_unwrap as they are
RawBlocks ==
  { FixedHeader("A", <<"0", "0", "1", "6">>, RestP0),
    Cat(FixedHeader("A", <<"0", "0", "8", "0">>, RestP0), Rep("0", 64)),
    Cat(FixedHeader("B", <<"0", "0", "9", "6">>, RestP0), Rep("0", 64)),
    Cat(FixedHeader("C", <<"0", "0", "8", "0">>, RestP0), Rep("0", 64)),
    Cat(FixedHeader("D", <<"0", "0", "8", "0">>, RestP0), Rep("0", 64)),
    Cat(FixedHeader("D", <<"+", "1", "1", "2">>, RestP0), Rep("0", 96)),
    Str(<<"D", "0", "1", "1", "2", "P", LEAD, CONT, "A", "E", "0", "0", "E",
          "0", "0", "0", "0">>),
    Str(<<"D", "0", "0">>),
    ShortBlock(<<"3", "0">>, 44, 16),
    ShortBlock(<<"2", "0">>, 28, 32),
    ShortBlock(<<"1", "0">>, 12, 48) }

\* the digits 1234567890123.. of a PIN or a PAN of n digits
Digits(n) == Str([i \in 1..n |-> HexUpper[(i % 10) + 1]])

\* the PINs handed to encode_pinblock_iso_3: of 3, 4, 12 and 13 digits, with a
\* letter, with a numeric character that is no decimal digit, with a
\* character that is not numeric
PinInputs ==
  { Digits(3), Digits(4), Digits(12), Digits(13),
    Cat(Digits(3), S1("A")),
    Cat(Digits(2), Str(<<NUM_LEAD, NUM_CONT>>)),
    Str(<<NUM_LEAD, NUM_CONT, NUM_LEAD, NUM_CONT>>),
    Cat(Digits(2), Str(<<LEAD, CONT>>)) }

\* the PANs: of 12, 13 and 16 digits, with a letter as the check digit, before
\* the last 13 characters and among them, with a non-ASCII character as the
\* check digit and among the last 13
PanInputs ==
  { Digits(12), Digits(13), Digits(16),
    Cat(Digits(12), S1("X")),
    Cat(S1("A"), Digits(13)),
    Cat(S1("A"), Digits(12)),
    Cat(Digits(12), Str(<<LEAD, CONT>>)),
    Cat3(Digits(7), Str(<<LEAD, CONT>>), Digits(5)) }

\* the seeds: of 8 bytes, and one byte short
PinSeeds == {Rep(255, 8), Str(<<0, 18, 52, 86, 120, 154, 188, 222>>), Rep(0, 7)}

\* header strings handed to KeyBlockHeader::new_from_str
HeaderStrings ==
  { FixedHeader("D", <<"0", "0", "1", "6">>, RestP0),
    FixedHeader("D", <<"0", "0", "0", "0">>, RestP0),
    FixedHeader("D", <<"+", "1", "1", "2">>, RestP0),
    FixedHeader("Z", <<"0", "0", "1", "6">>, RestP0),
    Cat3(Str(<<"D", "0", "0", "4", "8", "P", "0", "A", "E", "0", "0", "E", "0", "2",
               "0", "0", "C", "T", "0", "C">>),
         SomeData, Cat(Str(<<"P", "B", "1", "4">>), Rep("0", 16))),
    Cat(Str(<<"D", "0", "0", "2", "8", "P", "0", "A", "E", "0", "0", "E", "0", "1",
              "0", "0", "C", "T", "0", "c">>), SomeData),
    Str(<<"D", "0", "1", "1", "2", "P", LEAD, CONT, "A", "E", "0", "0", "E",
          "0", "0", "0", "0">>),
    Str(<<"D", "0", "0">>) }

\* the values handed to the setter of the field f
FieldInputs(f) ==
  IF f = "version_id" THEN {S1("B"), S1("Z")}
  ELSE IF f = "kb_length" THEN {16, 10000}
  ELSE IF f = "key_usage" THEN {S2("K", "0"), S2("Z", "Z")}
  ELSE IF f = "algorithm" THEN {S1("T"), S1("Z")}
  ELSE IF f = "mode_of_use" THEN {S1("D"), S1("Z")}
  ELSE IF f = "key_version_number" THEN {S2("0", "1"), S1("1"), Str(<<LEAD, CONT>>)}
  ELSE IF f = "exportability" THEN {S1("N"), S1("Z")}
  ELSE IF f = "num_optional_blocks" THEN {1, 99, 100}
  ELSE {S2("0", "0"), S2("0", "1")}

Fields ==
  {"version_id", "kb_length", "key_usage", "algorithm", "mode_of_use",
   "key_version_number", "exportability", "num_optional_blocks", "reserved_field"}

\* -------------------------------------------------------------- state

VARIABLES
  build,   \* "debug" or "release": what an arithmetic overflow does
  pc,      \* where the run is
  hdr,     \* the KeyBlockHeader the caller holds
  win,     \* the arguments of the wrap call
  wres,    \* the Result of the wrap call
  blk,     \* the key block string on its way to tr31_unwrap
  tam,     \* what was changed in blk on the way
  ures,    \* the Result of the unwrap call, with the KBPK it was given
  src,     \* the string hdr was parsed from, while hdr is its parse
  last,    \* the last call of the header interface and its Result
  ops,     \* calls made in the header interface
  other,   \* a second wrap call with another key, and its Result
  pay,     \* the arguments of a construct_payload call and its Result
  optb,    \* the OptBlock chain the caller builds
  reparse, \* the export of optb and the Result of parsing it again
  der,     \* the KBPK of a derive_keys_version_d call and its Result
  pinb     \* the arguments of an encode_pinblock_iso_3 call and its Result

vars == <<build, pc, hdr, win, wres, blk, tam, ures, src, last, ops, other, pay, optb,
          reparse, der, pinb>>

NoCall == [kbpk |-> <<>>, header |-> <<>>, header_str |-> <<>>, key |-> <<>>,
           masked |-> 0, seed |-> <<>>]
NoResult == [st |-> "none", e |-> "", v |-> <<>>]
NoUnwrap == [r |-> Unwrapped(NoResult, "none", <<>>, <<>>), kbpk |-> <<>>]
NoTamper == [kind |-> "none", pos |-> 0, how |-> ""]
NoLast == [op |-> "none", st |-> "none", e |-> "", v |-> <<>>, from |-> <<>>,
           prev |-> [op |-> "none", from |-> <<>>]]
NoOther == [key |-> <<>>, r |-> NoResult]
NoPayload == [key |-> <<>>, masked |-> 0, seed |-> <<>>, r |-> NoResult]
NoParse == [s |-> NoResult, r |-> NoResult]
NoDerive == [kbpk |-> <<>>, r |-> NoResult]
NoPin == [pin |-> <<>>, pan |-> <<>>, seed |-> <<>>, r |-> NoResult]

Init ==
  /\ build \in {"debug", "release"}
  /\ pc = "new"
  /\ hdr = KeyBlockHeader_new_empty
  /\ win = NoCall
  /\ wres = NoResult
  /\ blk = <<>>
  /\ tam = NoTamper
  /\ ures = NoUnwrap
  /\ src = <<>>
  /\ last = NoLast
  /\ ops = 0
  /\ other = NoOther
  /\ pay = NoPayload
  /\ optb = <<>>
  /\ reparse = NoParse
  /\ der = NoDerive
  /\ pinb = NoPin

\* ---------------------------------------------- wrapping and unwrapping

NewWithValues(version) ==
  /\ pc = "new"
  /\ hdr' = KeyBlockHeader_new_with_values(S1(version), S2("P", "0"), S1("A"), S1("E"),
                                           S2("0", "0"), S1("E")).v
  /\ pc' = "header"
  /\ UNCHANGED <<build, win, wres, blk, tam, ures, src, last, ops, other, pay, optb, reparse,
                     der, pinb>>

SetOptBlocks(chain) ==
  /\ pc = "header"
  /\ hdr' = KeyBlockHeader_set_opt_blocks(build, hdr, chain).v
  /\ pc' = "blocks"
  /\ UNCHANGED <<build, win, wres, blk, tam, ures, src, last, ops, other, pay, optb, reparse,
                     der, pinb>>

Finalize ==
  /\ pc = "blocks"
  /\ hdr' = KeyBlockHeader_finalize(build, hdr).v
  /\ pc' = "final"
  /\ UNCHANGED <<build, win, wres, blk, tam, ures, src, last, ops, other, pay, optb, reparse,
                     der, pinb>>

SetKbLength(value) ==
  /\ pc \in {"header", "final"}
  /\ hdr' = KeyBlockHeader_set_kb_length(hdr, value).v
  /\ pc' = "length"
  /\ UNCHANGED <<build, win, wres, blk, tam, ures, src, last, ops, other, pay, optb, reparse,
                     der, pinb>>

Wrap(kbpk, key, masked_key_len, random_seed) ==
  LET r == tr31_wrap(build, kbpk, hdr, key, masked_key_len, random_seed)
  IN  /\ pc \in {"header", "blocks", "final", "length"}
      /\ win' = [kbpk |-> kbpk, header |-> hdr, header_str |-> <<>>, key |-> key,
                 masked |-> masked_key_len, seed |-> random_seed]
      /\ wres' = r
      /\ blk' = r.v
      /\ pc' = IF r.st = "panic" THEN "aborted" ELSE "wrapped"
      /\ UNCHANGED <<build, hdr, tam, ures, src, last, ops, other, pay, optb, reparse,
                     der, pinb>>

WrapWithHeaderString(kbpk, key, masked_key_len, random_seed) ==
  LET header_str == KeyBlockHeader_export_str(hdr)
      r == tr31_wrap_with_header_string(build, header_str.v, kbpk, key, masked_key_len,
                                        random_seed)
  IN  /\ pc = "length"
      /\ header_str.st = "ok"
      /\ win' = [kbpk |-> kbpk, header |-> KeyBlockHeader_new_from_str(header_str.v).v,
                 header_str |-> header_str.v, key |-> key, masked |-> masked_key_len,
                 seed |-> random_seed]
      /\ wres' = r
      /\ blk' = r.v
      /\ pc' = IF r.st = "panic" THEN "aborted" ELSE "wrapped"
      /\ UNCHANGED <<build, hdr, tam, ures, src, last, ops, other, pay, optb, reparse,
                     der, pinb>>

\* the call of wres again, with another key and the same other arguments
WrapOther(key) ==
  LET r == IF win.header_str = <<>>
           THEN tr31_wrap(build, win.kbpk, win.header, key, win.masked, win.seed)
           ELSE tr31_wrap_with_header_string(build, win.header_str, win.kbpk, key,
                                             win.masked, win.seed)
  IN  /\ pc = "wrapped"
      /\ other' = [key |-> key, r |-> r]
      /\ pc' = IF r.st = "panic" THEN "aborted" ELSE "compared"
      /\ UNCHANGED <<build, hdr, win, wres, blk, tam, ures, src, last, ops, pay, optb,
                     reparse, der, pinb>>

\* s with the characters from offset a on replaced by those of r
ReplaceAt(s, a, r) == Cat3(Take(s, a), r, Drop(s, a + SLen(r)))

\* the character a change of kind `how` puts in the place of the hex digit c
MacChange(c, how) ==
  IF how = "value" THEN HexUpper[((DigitVal(c, 16) + 1) % 16) + 1]
  ELSE IF how = "case" THEN HexLower[DigitVal(c, 16) + 1]
  ELSE "G"

\* one character of the MAC is changed
TamperMac(i, how) ==
  LET at == SLen(blk) - 2 * TR31_D_MAC_LEN + i
      c == MacChange(At(blk, at), how)
  IN  /\ pc = "wrapped"
      /\ wres.st = "ok"
      /\ c # At(blk, at)
      /\ blk' = ReplaceAt(blk, at, S1(c))
      /\ tam' = [kind |-> "mac", pos |-> i, how |-> how]
      /\ pc' = "tampered"
      /\ UNCHANGED <<build, hdr, win, wres, ures, src, last, ops, other, pay, optb, reparse,
                     der, pinb>>

\* the header fields a change can replace, with two valid values of each
HeaderFields ==
  {"key_usage", "algorithm", "mode_of_use", "key_version_number", "exportability",
   "opt_block_id", "opt_block_data"}

HeaderFieldValues(f) ==
  IF f = "key_usage" THEN {S2("K", "0"), S2("P", "0")}
  ELSE IF f = "algorithm" THEN {S1("T"), S1("A")}
  ELSE IF f = "mode_of_use" THEN {S1("D"), S1("E")}
  ELSE IF f = "key_version_number" THEN {S2("0", "1"), S2("0", "0")}
  ELSE IF f = "exportability" THEN {S1("N"), S1("E")}
  ELSE IF f = "opt_block_id" THEN {S2("K", "P"), S2("C", "T")}
  ELSE {S1("X"), S1("S")}

\* the offset of the field in the header string of h
HeaderFieldAt(h, f) ==
  IF f = "key_usage" THEN 5
  ELSE IF f = "algorithm" THEN 7
  ELSE IF f = "mode_of_use" THEN 8
  ELSE IF f = "key_version_number" THEN 9
  ELSE IF f = "exportability" THEN 11
  ELSE IF f = "opt_block_id" THEN 16
  ELSE IF h.opt_blocks[1].length >= 256 THEN 26
  ELSE 20

\* one header field is replaced by another valid value of its length
TamperHeader(f) ==
  /\ pc = "wrapped"
  /\ wres.st = "ok"
  /\ f \in {"opt_block_id", "opt_block_data"} => win.header.opt_blocks # <<>>
  /\ \E value \in HeaderFieldValues(f) :
       LET at == HeaderFieldAt(win.header, f)
       IN  /\ Slice(blk, at, at + SLen(value)) # value
           /\ blk' = ReplaceAt(blk, at, value)
           /\ tam' = [kind |-> "header", pos |-> at, how |-> f]
  /\ pc' = "tampered"
  /\ UNCHANGED <<build, hdr, win, wres, ures, src, last, ops, other, pay, optb, reparse,
                     der, pinb>>

\* the string gains or loses a character, or declares another length
TamperLength(how) ==
  /\ pc = "wrapped"
  /\ wres.st = "ok"
  /\ blk' = IF how = "append" THEN Cat(blk, S1("0"))
            ELSE IF how = "truncate" THEN Take(blk, SLen(blk) - 1)
            ELSE ReplaceAt(blk, 1, Fmt((SLen(blk) + 16) % 10000, 10, 4))
  /\ tam' = [kind |-> "length", pos |-> 0, how |-> how]
  /\ pc' = "tampered"
  /\ UNCHANGED <<build, hdr, win, wres, ures, src, last, ops, other, pay, optb, reparse,
                     der, pinb>>

\* the version character is replaced
TamperVersion(version) ==
  /\ pc = "wrapped"
  /\ wres.st = "ok"
  /\ blk' = ReplaceAt(blk, 0, S1(version))
  /\ tam' = [kind |-> "version", pos |-> 0, how |-> version]
  /\ pc' = "tampered"
  /\ UNCHANGED <<build, hdr, win, wres, ures, src, last, ops, other, pay, optb, reparse,
                     der, pinb>>

\* a key block string from elsewhere
Raw(s) ==
  /\ pc = "new"
  /\ blk' = s
  /\ tam' = [kind |-> "raw", pos |-> 0, how |-> ""]
  /\ pc' = "tampered"
  /\ UNCHANGED <<build, hdr, win, wres, ures, src, last, ops, other, pay, optb, reparse,
                     der, pinb>>

Unwrap(kbpk) ==
  LET r == tr31_unwrap(kbpk, blk)
  IN  /\ \/ pc = "wrapped" /\ wres.st = "ok"
         \/ pc = "tampered" /\ (tam.kind = "raw" \/ kbpk = win.kbpk)
      /\ ures' = [r |-> r, kbpk |-> kbpk]
      /\ pc' = IF r.st = "panic" THEN "aborted" ELSE "unwrapped"
      /\ UNCHANGED <<build, hdr, win, wres, blk, tam, src, last, ops, other, pay, optb, reparse,
                     der, pinb>>

Next ==
  \/ \E version \in {"D", "B"} : NewWithValues(version)
  \/ \E chain \in Chains : SetOptBlocks(chain)
  \/ Finalize
  \/ SetKbLength(9999)
  \/ \E call \in WrapCalls : Wrap(call[1], call[2], call[3], call[4])
  \/ \E call \in WrapCalls : WrapWithHeaderString(call[1], call[2], call[3], call[4])
  \/ \E i \in 0..(2 * TR31_D_MAC_LEN - 1), how \in {"value", "case", "other"} :
       TamperMac(i, how)
  \/ \E f \in HeaderFields : TamperHeader(f)
  \/ \E how \in {"append", "truncate", "declare"} : TamperLength(how)
  \/ \E version \in {"A", "B", "C"} : TamperVersion(version)
  \/ \E s \in RawBlocks : Raw(s)
  \/ \E kbpk \in Kbpks : Unwrap(kbpk)

Spec == Init /\ [][Next]_vars

\* ------------------------------------------------------ two wrap calls
\* A caller builds a header, wraps a key, and wraps another key with the same
\* header, KBPK, masked length and seed.

NextMask ==
  \/ NewWithValues("D")
  \/ \E chain \in {ChainCT, ChainWide} : SetOptBlocks(chain)
  \/ Finalize
  \/ \E call \in MaskCalls : Wrap(call[1], call[2], call[3], call[4])
  \/ \E key \in OtherKeys : WrapOther(key)

SpecMask == Init /\ [][NextMask]_vars

\* ------------------------------------------------- the header interface
\* A caller holding one KeyBlockHeader makes up to MaxOps calls of the public
\* constructors and mutators, and of export_str.

InitHeader ==
  /\ build \in {"debug", "release"}
  /\ pc = "api"
  /\ hdr = KeyBlockHeader_new_empty
  /\ win = NoCall
  /\ wres = NoResult
  /\ blk = <<>>
  /\ tam = NoTamper
  /\ ures = NoUnwrap
  /\ src = <<>>
  /\ last = NoLast
  /\ ops = 0
  /\ other = NoOther
  /\ pay = NoPayload
  /\ optb = <<>>
  /\ reparse = NoParse
  /\ der = NoDerive
  /\ pinb = NoPin

\* the record of the call op that returned r, v being the string of an Ok of
\* export_str: with the header the call was made on, and the call before it
Call(op, r, v) ==
  [op |-> op, st |-> r.st, e |-> r.e, v |-> v, from |-> hdr,
   prev |-> [op |-> last.op, from |-> last.from]]

\* a panic ends the run
After(r) == IF r.st = "panic" THEN "aborted" ELSE "api"

\* a constructor's Ok replaces the header the caller holds
HeaderNewWithValues(version) ==
  LET r == KeyBlockHeader_new_with_values(S1(version), S2("P", "0"), S1("A"), S1("E"),
                                          S2("0", "0"), S1("E"))
  IN  /\ pc = "api"
      /\ ops < MaxOps
      /\ ops' = ops + 1
      /\ last' = Call("new_with_values", r, <<>>)
      /\ hdr' = IF r.st = "ok" THEN r.v ELSE hdr
      /\ src' = IF r.st = "ok" THEN <<>> ELSE src
      /\ pc' = After(r)
      /\ UNCHANGED <<build, win, wres, blk, tam, ures, other, pay, optb, reparse, der, pinb>>

\* new_from_str is a pure function of its argument: its results on the
\* header strings, computed once
HeaderParses == {<<s, KeyBlockHeader_new_from_str(s)>> : s \in HeaderStrings}

HeaderNewFromStr(s) ==
  LET r == Only({p[2] : p \in {q \in HeaderParses : q[1] = s}})
  IN  /\ pc = "api"
      /\ ops < MaxOps
      /\ ops' = ops + 1
      /\ last' = Call("new_from_str", r, <<>>)
      /\ hdr' = IF r.st = "ok" THEN r.v ELSE hdr
      /\ src' = IF r.st = "ok" THEN s ELSE src
      /\ pc' = After(r)
      /\ UNCHANGED <<build, win, wres, blk, tam, ures, other, pay, optb, reparse, der, pinb>>

\* a mutator's Ok or Err leaves the header it wrote
HeaderSet(f, value) ==
  LET r == KeyBlockHeader_set(hdr, f, value)
  IN  /\ pc = "api"
      /\ ops < MaxOps
      /\ ops' = ops + 1
      /\ last' = Call(f, r, <<>>)
      /\ hdr' = r.v
      /\ src' = IF r.v = hdr THEN src ELSE <<>>
      /\ pc' = After(r)
      /\ UNCHANGED <<build, win, wres, blk, tam, ures, other, pay, optb, reparse, der, pinb>>

HeaderSetOptBlocks(chain) ==
  LET r == KeyBlockHeader_set_opt_blocks(build, hdr, chain)
  IN  /\ pc = "api"
      /\ ops < MaxOps
      /\ ops' = ops + 1
      /\ last' = Call("set_opt_blocks", r, <<>>)
      /\ hdr' = IF r.st = "ok" THEN r.v ELSE hdr
      /\ src' = <<>>
      /\ pc' = After(r)
      /\ UNCHANGED <<build, win, wres, blk, tam, ures, other, pay, optb, reparse, der, pinb>>

HeaderAppendOptBlocks(chain) ==
  LET r == KeyBlockHeader_append_opt_blocks(build, hdr, chain)
  IN  /\ pc = "api"
      /\ ops < MaxOps
      /\ ops' = ops + 1
      /\ last' = Call("append_opt_blocks", r, <<>>)
      /\ hdr' = IF r.st = "ok" THEN r.v ELSE hdr
      /\ src' = <<>>
      /\ pc' = After(r)
      /\ UNCHANGED <<build, win, wres, blk, tam, ures, other, pay, optb, reparse, der, pinb>>

HeaderFinalize ==
  LET r == KeyBlockHeader_finalize(build, hdr)
  IN  /\ pc = "api"
      /\ ops < MaxOps
      /\ ops' = ops + 1
      /\ last' = Call("finalize", r, <<>>)
      /\ hdr' = IF r.st = "panic" THEN hdr ELSE r.v
      /\ src' = IF r.st = "ok" /\ r.v = hdr THEN src ELSE <<>>
      /\ pc' = After(r)
      /\ UNCHANGED <<build, win, wres, blk, tam, ures, other, pay, optb, reparse, der, pinb>>

HeaderExportStr ==
  LET r == KeyBlockHeader_export_str(hdr)
  IN  /\ pc = "api"
      /\ ops < MaxOps
      /\ ops' = ops + 1
      /\ last' = Call("export_str", r, r.v)
      /\ UNCHANGED <<build, hdr, src, pc, win, wres, blk, tam, ures, other, pay, optb, reparse,
                     der, pinb>>

NextHeader ==
  \/ \E version \in {"D", "Z"} : HeaderNewWithValues(version)
  \/ \E s \in HeaderStrings : HeaderNewFromStr(s)
  \/ \E f \in Fields : \E value \in FieldInputs(f) : HeaderSet(f, value)
  \/ \E chain \in {ChainCT, ChainKS, ChainOf(U8_MAX)} : HeaderSetOptBlocks(chain)
  \/ HeaderAppendOptBlocks(ChainCT)
  \/ HeaderFinalize
  \/ HeaderExportStr

SpecHeader == InitHeader /\ [][NextHeader]_vars

\* ------------------------------------------------- the chain interface
\* A caller builds a chain of optional blocks with OptBlock::new, set_next
\* and append, exports it and parses the export.

InitOptBlock ==
  /\ build \in {"debug", "release"}
  /\ pc = "opt"
  /\ hdr = KeyBlockHeader_new_empty
  /\ win = NoCall
  /\ wres = NoResult
  /\ blk = <<>>
  /\ tam = NoTamper
  /\ ures = NoUnwrap
  /\ src = <<>>
  /\ last = NoLast
  /\ ops = 0
  /\ other = NoOther
  /\ pay = NoPayload
  /\ optb = <<>>
  /\ reparse = NoParse
  /\ der = NoDerive
  /\ pinb = NoPin

\* OptBlock::new(id, data, next), next being the chain built so far
OptNew(id, data) ==
  LET r == OptBlock_new(id, data, optb)
  IN  /\ pc = "opt"
      /\ Len(optb) < MaxNodes
      /\ r.st = "ok"
      /\ optb' = r.v
      /\ UNCHANGED <<build, pc, hdr, win, wres, blk, tam, ures, src, last, ops, other, pay,
                     reparse, der, pinb>>

\* set_next of the head with a new block: the blocks behind the head are dropped
OptSetNext(id, data) ==
  LET r == OptBlock_new(id, data, <<>>)
  IN  /\ pc = "opt"
      /\ optb # <<>>
      /\ r.st = "ok"
      /\ optb' = OptBlock_set_next(optb, r.v)
      /\ UNCHANGED <<build, pc, hdr, win, wres, blk, tam, ures, src, last, ops, other, pay,
                     reparse, der, pinb>>

\* append of a new block to the chain
OptAppend(id, data) ==
  LET r == OptBlock_new(id, data, <<>>)
  IN  /\ pc = "opt"
      /\ optb # <<>>
      /\ Len(optb) < MaxNodes
      /\ r.st = "ok"
      /\ optb' = OptBlock_append(optb, r.v)
      /\ UNCHANGED <<build, pc, hdr, win, wres, blk, tam, ures, src, last, ops, other, pay,
                     reparse, der, pinb>>

\* export_str of the chain, and new_from_str of the export with the number of
\* nodes of the chain
OptExportParse ==
  LET s == OptBlock_export_str(optb)
  IN  /\ pc = "opt"
      /\ optb # <<>>
      /\ reparse' = [s |-> s,
                     r |-> IF s.st = "ok" THEN OptBlock_new_from_str(s.v, Len(optb))
                           ELSE NoResult]
      /\ pc' = "reparsed"
      /\ UNCHANGED <<build, hdr, win, wres, blk, tam, ures, src, last, ops, other, pay,
                     optb, der, pinb>>

\* new_from_str of a string of the caller's choice
OptNewFromStr(s, num_opt_blocks) ==
  /\ pc = "opt"
  /\ optb = <<>>
  /\ reparse' = [s |-> Ok(s), r |-> OptBlock_new_from_str(s, num_opt_blocks),
                 n |-> num_opt_blocks]
  /\ pc' = "parsed"
  /\ UNCHANGED <<build, hdr, win, wres, blk, tam, ures, src, last, ops, other, pay, optb,
                 der, pinb>>

NextOptBlock ==
  \/ \E b \in BlockInputs : OptNew(b[1], b[2])
  \/ \E call \in ParseInputs : OptNewFromStr(call[1], call[2])
  \/ \E b \in BlockInputs : OptSetNext(b[1], b[2])
  \/ \E b \in BlockInputs : OptAppend(b[1], b[2])
  \/ OptExportParse

SpecOptBlock == InitOptBlock /\ [][NextOptBlock]_vars

\* ------------------------------------------------- the OptBlock setters
\* A caller builds a chain with OptBlock::new, set_next and append, and calls
\* set_id and set_data on its head.

\* the record of the setter op that returned r on the chain optb
SetCall(op, r) ==
  [op |-> op, st |-> r.st, e |-> r.e, v |-> <<>>, from |-> optb, prev |-> NoLast.prev]

OptSetId(id) ==
  LET r == OptBlock_set_id(optb, id)
  IN  /\ pc = "opt"
      /\ optb # <<>>
      /\ ops < MaxOps
      /\ optb' = r.v
      /\ last' = SetCall("set_id", r)
      /\ ops' = ops + 1
      /\ UNCHANGED <<build, pc, hdr, win, wres, blk, tam, ures, src, other, pay,
                     reparse, der, pinb>>

OptSetData(data) ==
  LET r == OptBlock_set_data(optb, data)
  IN  /\ pc = "opt"
      /\ optb # <<>>
      /\ ops < MaxOps
      /\ optb' = r.v
      /\ last' = SetCall("set_data", r)
      /\ ops' = ops + 1
      /\ UNCHANGED <<build, pc, hdr, win, wres, blk, tam, ures, src, other, pay,
                     reparse, der, pinb>>

\* the head is made once, and the blocks linked behind it are all alike
NextSetters ==
  \/ \E b \in BlockInputs : optb = <<>> /\ OptNew(b[1], b[2])
  \/ \E b \in TailInputs : OptSetNext(b[1], b[2])
  \/ \E b \in TailInputs : OptAppend(b[1], b[2])
  \/ \E id \in SetIds : OptSetId(id)
  \/ \E data \in SetDatas : OptSetData(data)

SpecSetters == InitOptBlock /\ [][NextSetters]_vars

\* ------------------------------------------------ the payload codec
\* construct_payload is called once, on arguments of the caller's choice.

InitPayload ==
  /\ build \in {"debug", "release"}
  /\ pc = "payload"
  /\ hdr = KeyBlockHeader_new_empty
  /\ win = NoCall
  /\ wres = NoResult
  /\ blk = <<>>
  /\ tam = NoTamper
  /\ ures = NoUnwrap
  /\ src = <<>>
  /\ last = NoLast
  /\ ops = 0
  /\ other = NoOther
  /\ \E call \in PayloadCalls :
       pay = [key |-> call[1], masked |-> call[2], seed |-> call[3], r |-> NoResult]
  /\ optb = <<>>
  /\ reparse = NoParse
  /\ der = NoDerive
  /\ pinb = NoPin

ConstructPayload ==
  LET r == construct_payload(build, pay.key, pay.masked, TR31_D_BLOCK_LEN, pay.seed)
  IN  /\ pc = "payload"
      /\ pay' = [pay EXCEPT !.r = r]
      /\ pc' = IF r.st = "panic" THEN "aborted" ELSE "built"
      /\ UNCHANGED <<build, hdr, win, wres, blk, tam, ures, src, last, ops, other, optb,
                     reparse, der, pinb>>

NextPayload == ConstructPayload

SpecPayload == InitPayload /\ [][NextPayload]_vars

\* ------------------------------------------------- the key derivation
\* derive_keys_version_d is called once, on a KBPK of the caller's choice.

InitDerive ==
  /\ build \in {"debug", "release"}
  /\ pc = "derive"
  /\ hdr = KeyBlockHeader_new_empty
  /\ win = NoCall
  /\ wres = NoResult
  /\ blk = <<>>
  /\ tam = NoTamper
  /\ ures = NoUnwrap
  /\ src = <<>>
  /\ last = NoLast
  /\ ops = 0
  /\ other = NoOther
  /\ pay = NoPayload
  /\ optb = <<>>
  /\ reparse = NoParse
  /\ \E kbpk \in DeriveInputs : der = [kbpk |-> kbpk, r |-> NoResult]
  /\ pinb = NoPin

DeriveKeysVersionD ==
  /\ pc = "derive"
  /\ der' = [der EXCEPT !.r = derive_keys_version_d(der.kbpk)]
  /\ pc' = "derived"
  /\ UNCHANGED <<build, hdr, win, wres, blk, tam, ures, src, last, ops, other, pay, optb,
                 reparse, pinb>>

NextDerive == DeriveKeysVersionD

SpecDerive == InitDerive /\ [][NextDerive]_vars

\* ------------------------------------------------- the PIN block encoder
\* encode_pinblock_iso_3 is called once, on arguments of the caller's choice.

InitPin ==
  /\ build \in {"debug", "release"}
  /\ pc = "pin"
  /\ hdr = KeyBlockHeader_new_empty
  /\ win = NoCall
  /\ wres = NoResult
  /\ blk = <<>>
  /\ tam = NoTamper
  /\ ures = NoUnwrap
  /\ src = <<>>
  /\ last = NoLast
  /\ ops = 0
  /\ other = NoOther
  /\ pay = NoPayload
  /\ optb = <<>>
  /\ reparse = NoParse
  /\ der = NoDerive
  /\ \E pin \in PinInputs : \E pan \in PanInputs : \E seed \in PinSeeds :
       pinb = [pin |-> pin, pan |-> pan, seed |-> seed, r |-> NoResult]

EncodePinblockIso3 ==
  LET r == encode_pinblock_iso_3(pinb.pin, pinb.pan, pinb.seed)
  IN  /\ pc = "pin"
      /\ pinb' = [pinb EXCEPT !.r = r]
      /\ pc' = IF r.st = "panic" THEN "aborted" ELSE "encoded"
      /\ UNCHANGED <<build, hdr, win, wres, blk, tam, ures, src, last, ops, other, pay, optb,
                     reparse, der>>

NextPin == EncodePinblockIso3

SpecPin == InitPin /\ [][NextPin]_vars

\* ============================================================ properties

\* tr31_unwrap has been called
UnwrapCalled == ures # NoUnwrap
\* tr31_unwrap has been called with the KBPK of the wrap call on its output
SameKbpk == UnwrapCalled /\ win # NoCall /\ ures.kbpk = win.kbpk
\* the wrap call has returned or aborted and nothing has been done since
JustWrapped == win # NoCall /\ tam = NoTamper /\ ~UnwrapCalled
\* kb_length as characters 1..4 of s declare it, -1 if they are no number
DeclaredLength(s) == FromStrRadix(Slice(s, 1, 5), 10)
MinKeyBlockLen == 16 + 2 * TR31_D_BLOCK_LEN + 2 * TR31_D_MAC_LEN
VersionError == "ERROR TR-31: Key block version not supported by implementation"
LengthError == "ERROR TR-31: Key block length does not match its length in the header"
MinimumError == "ERROR TR-31: Key block length is below minimum required length"
MacError == "ERROR TR-31: MAC check failed"

\* C1: for every KBPK of 16, 24 or 32 bytes, whenever tr31_wrap returns a key
\* block, tr31_unwrap with the same KBPK on that key block succeeds and
\* returns the key that was wrapped.
C1_RoundTrip ==
  (SameKbpk /\ tam = NoTamper /\ SLen(win.kbpk) \in {16, 24, 32})
    => (ures.r.st = "ok" /\ ures.r.v.key = win.key)

\* C2: tr31_unwrap returns Ok only after the comparison of the transmitted MAC
\* with the recomputed CMAC found them equal; when they differ it returns the
\* MAC-check error from the comparison, before the key is extracted, and
\* returns no header and no key.
C2_FailsClosed ==
  UnwrapCalled =>
    /\ ures.r.st = "ok" =>
         (ures.r.at = "extract" /\ ures.r.calc # <<>> /\ ures.r.mac = ures.r.calc)
    /\ (ures.r.calc # <<>> /\ ures.r.mac # ures.r.calc) =>
         (ures.r.st = "err" /\ ures.r.e = MacError /\ ures.r.at = "mac"
            /\ ures.r.v = <<>>)

\* a call of tr31_unwrap that recomputed a CMAC other than the transmitted one
C2_Mismatch ==
  UnwrapCalled /\ tam.kind = "mac" /\ ures.r.calc # <<>> /\ ures.r.mac # ures.r.calc
    /\ ures.r.at = "mac"

\* C3: after one character of the trailing 32-character MAC of a wrapped key
\* block is changed, tr31_unwrap with the same KBPK fails with the MAC-check
\* error.
C3_MacTamperFails ==
  (SameKbpk /\ tam.kind = "mac") => (ures.r.st = "err" /\ ures.r.e = MacError)

\* C4: after one header field of a wrapped key block (key usage, algorithm,
\* mode of use, key version number, exportability, or the id or data of an
\* optional block) is replaced by another valid value of its length, the
\* ciphertext and the MAC kept, tr31_unwrap with the same KBPK returns an error
\* and no key.
C4_HeaderBound ==
  (SameKbpk /\ tam.kind = "header") => (ures.r.st = "err" /\ ures.r.v = <<>>)

\* a call of tr31_unwrap on a key block whose optional-block data was replaced,
\* turned away by the MAC comparison
C4_Replaced ==
  SameKbpk /\ tam.kind = "header" /\ tam.how = "opt_block_data" /\ ures.r.at = "mac"
    /\ ures.r.st = "err"

\* C5: tr31_unwrap returns an error and no key whenever the length of the key
\* block string differs from the kb_length its characters 1..4 declare.
C5_LengthMismatchFails ==
  (UnwrapCalled /\ DeclaredLength(blk) # SLen(blk))
    => (ures.r.st = "err" /\ ures.r.v = <<>>)

C7_DeclaredLength ==
  (win # NoCall /\ wres.st = "ok")
    => (DeclaredLength(wres.v) = SLen(wres.v) /\ SLen(wres.v) <= 9999)

\* the result of the wrap call of the state, had its header carried kb_length l
WrapWith(l) ==
  IF win.header_str = <<>>
  THEN tr31_wrap(build, win.kbpk, [win.header EXCEPT !.kb_length = l], win.key,
                 win.masked, win.seed)
  ELSE tr31_wrap_with_header_string(build, ReplaceAt(win.header_str, 1, Fmt(l, 10, 4)),
                                    win.kbpk, win.key, win.masked, win.seed)

\* C8: the kb_length of the header given to tr31_wrap, or of the header string
\* given to tr31_wrap_with_header_string, has no influence on the result: the
\* call with any other kb_length and the same other arguments returns the same.
C8_KbLengthIgnored ==
  JustWrapped => \A l \in KbLengths : WrapWith(l) = wres

\* a key block returned for a header string that carried a kb_length other
\* than the one the key block has
C8_Overwritten ==
  JustWrapped /\ wres.st = "ok" /\ win.header_str # <<>>
    /\ win.header.kb_length \notin {0, SLen(wres.v)}

\* C9: for every header reached through the public constructors and mutators
\* for which export_str succeeds, new_from_str of the exported string succeeds
\* and yields an equal header.
C9_ParseOfExport ==
  pc = "api" =>
    LET exported == KeyBlockHeader_export_str(hdr)
        parsed == KeyBlockHeader_new_from_str(exported.v)
    IN  exported.st = "ok" => (parsed.st = "ok" /\ parsed.v = hdr)

\* C10: for every string new_from_str accepts that is exactly the fixed header
\* and the declared optional blocks, export_str of the parsed header succeeds
\* and returns the string.
C10_ExportOfParse ==
  (pc = "api" /\ src # <<>> /\ SLen(src) = KeyBlockHeader_len(hdr))
    => LET exported == KeyBlockHeader_export_str(hdr)
       IN  exported.st = "ok" /\ exported.v = src

\* ---------------------------------------- the optional blocks of a header

\* finalize has returned Ok
Finalized == last.op = "finalize" /\ last.st = "ok"
\* the block size finalize takes for the header h
BlockSizeOf(h) == IF h.version_id = S1("D") THEN 16 ELSE 8
\* the last node of the chain of the header h
LastBlock(h) == h.opt_blocks[Len(h.opt_blocks)]

\* C11: after any sequence of the public constructors and mutators of
\* KeyBlockHeader, num_optional_blocks is the number of nodes of the chain of
\* optional blocks.
C11_CountIsChainLength ==
  pc = "api" => hdr.num_opt_blocks = Len(hdr.opt_blocks)

\* C12: in every state reached through the public operations
\* num_optional_blocks is at most 99, a call that would take it beyond 99
\* returns an error, and the count field of an export is two digits, so that
\* the export is as long as header.len() says.
C12_AtMost99 ==
  /\ hdr.num_opt_blocks <= 99
  /\ (last.op = "export_str" /\ last.st = "ok") => SLen(last.v) = KeyBlockHeader_len(hdr)

\* C13: after finalize() has returned Ok, header.len() is a multiple of the
\* block size (16 for version D, 8 otherwise); if it appended a block, that
\* block is the last node, its id is PB, its data is two or more characters
\* "0" and nothing else, and num_optional_blocks has grown by exactly 1.
C13_FinalizePads ==
  Finalized =>
    /\ KeyBlockHeader_len(hdr) % BlockSizeOf(hdr) = 0
    /\ hdr.opt_blocks # last.from.opt_blocks =>
         /\ hdr.opt_blocks = last.from.opt_blocks \o <<LastBlock(hdr)>>
         /\ LastBlock(hdr).id = S2("P", "B")
         /\ Elems(LastBlock(hdr).data) = {"0"}
         /\ SLen(LastBlock(hdr).data) >= 2
         /\ hdr.num_opt_blocks = last.from.num_opt_blocks + 1

\* C14: finalize() on a header whose length is a multiple of the block size
\* changes nothing, and a second finalize() after a finalize() leaves the
\* header as the first left it.
C14_FinalizeIdempotent ==
  Finalized =>
    /\ KeyBlockHeader_len(last.from) % BlockSizeOf(last.from) = 0 => hdr = last.from
    /\ last.prev.op = "finalize" => hdr = last.from

\* finalize() called again on the header a first finalize() has padded
C14_Twice ==
  /\ Finalized
  /\ last.prev.op = "finalize"
  /\ last.prev.from.opt_blocks # last.from.opt_blocks
  /\ LastBlock(hdr).id = S2("P", "B")

\* ------------------------------------------------------ wrapping, again

AlignError == "ERROR TR-31: Total block length is not a multiple of block length"
KbpkError == "ERROR TR-31: Invalid KBPK length"

\* tr31_wrap has been called on a version-D header with a KBPK of an AES key
\* length and a seed that covers the padding
WrapOfD ==
  /\ win # NoCall
  /\ win.header_str = <<>>
  /\ win.header.version_id = S1("D")
  /\ SLen(win.kbpk) \in {16, 24, 32}
  /\ LET padding_length == calculate_padding_length(SLen(win.key), win.masked,
                                                     TR31_D_BLOCK_LEN)
     IN  padding_length.st = "ok" /\ SLen(win.seed) >= padding_length.v

\* C15: for a version-D header, a KBPK of 16, 24 or 32 bytes and a seed long
\* enough, tr31_wrap returns the error that the total length is no multiple of
\* the block length exactly when header.len() is no multiple of 16, and then
\* no key block; on a header that finalize() leaves as it is, tr31_wrap does
\* not return that error.
C15_AlignmentError ==
  WrapOfD =>
    /\ (wres.st = "err" /\ wres.e = AlignError)
         <=> (KeyBlockHeader_len(win.header) % TR31_D_BLOCK_LEN # 0)
    /\ (wres.st = "err" /\ wres.e = AlignError) => wres.v = <<>>
    /\ KeyBlockHeader_finalize(build, win.header) = Ok(win.header)
         => ~(wres.st = "err" /\ wres.e = AlignError)

\* ------------------------------------------------- chains of OptBlocks

\* C16: for every chain of n blocks built with OptBlock::new, set_next and
\* append, with data on both sides of the extended length field, export_str
\* succeeds and new_from_str of the export with n succeeds and returns a chain
\* equal to the one exported.
C16_ChainRoundTrip ==
  pc = "reparsed" =>
    /\ reparse.s.st = "ok"
    /\ reparse.r.st = "ok"
    /\ reparse.r.v = optb

\* a parsed export of a chain of MaxNodes blocks, some with the ordinary and
\* some with the extended length field
C16_BothFields ==
  /\ pc = "reparsed"
  /\ Len(optb) = MaxNodes
  /\ \E i, j \in 1..Len(optb) : optb[i].length < 256 /\ optb[j].length >= 256
  /\ SLen(reparse.s.v) = OptBlock_total_length(optb)

\* ---------------------------------------------------------- the payload

\* the length of the payload of a key of key_len bytes masked to masked bytes:
\* 2 + max(key_len, masked), rounded up to whole blocks of 16
PayloadLength(key_len, masked) ==
  (((2 + (IF key_len >= masked THEN key_len ELSE masked)) + 15) \div 16) * 16

\* C17: for every key, masked key length and seed that covers the padding,
\* construct_payload(key, masked, 16, seed) returns Ok: a byte string of
\* ceil((2 + max(key.len(), masked)) / 16) * 16 bytes, namely the two bytes of
\* key.len() * 8 in big-endian order, the key, and the first bytes of the seed
\* up to that length.
C17_PayloadLayout ==
  (/\ pc \in {"built", "aborted"}
   /\ pay.r # NoResult
   /\ SLen(pay.seed) >= PayloadLength(SLen(pay.key), pay.masked) - 2 - SLen(pay.key))
    => /\ pay.r.st = "ok"
       /\ SLen(pay.r.v) = PayloadLength(SLen(pay.key), pay.masked)
       /\ (256 * At(pay.r.v, 0)) + At(pay.r.v, 1) = SLen(pay.key) * 8
       /\ Slice(pay.r.v, 2, 2 + SLen(pay.key)) = pay.key
       /\ Drop(pay.r.v, 2 + SLen(pay.key))
            = Take(pay.seed, PayloadLength(SLen(pay.key), pay.masked) - 2 - SLen(pay.key))

\* ------------------------------------------------------------- masking

\* a second key has been wrapped with the arguments of the first, both keys
\* are no longer than masked_key_len and the seed covers the padding of both
TwoMasked ==
  /\ other # NoOther
  /\ SLen(win.key) <= win.masked
  /\ SLen(other.key) <= win.masked
  /\ \A key \in {win.key, other.key} :
       SLen(win.seed) >= PayloadLength(SLen(key), win.masked) - 2 - SLen(key)

\* C18: two keys no longer than masked_key_len, wrapped with the same header,
\* KBPK, masked_key_len and a seed long enough: when tr31_wrap returns a key
\* block for one it returns one for the other, of the same length and with
\* the same declared kb_length.
C18_MaskingHidesLength ==
  TwoMasked =>
    /\ wres.st = "ok" <=> other.r.st = "ok"
    /\ wres.st = "ok" =>
         /\ SLen(other.r.v) = SLen(wres.v)
         /\ DeclaredLength(other.r.v) = DeclaredLength(wres.v)

\* ------------------------------------------------ the KBPK and the slices

\* derive_keys_version_d on kbpk does what its length asks for
DeriveByLength(kbpk) ==
  LET r == derive_keys_version_d(kbpk)
  IN  IF SLen(kbpk) \in {16, 24, 32}
      THEN r.st = "ok" /\ SLen(r.v[1]) = SLen(kbpk) /\ SLen(r.v[2]) = SLen(kbpk)
      ELSE r = Err(KbpkError)

\* C19: derive_keys_version_d returns Ok exactly for a KBPK of 16, 24 or 32
\* bytes, with a KBEK and a KBAK of the length of the KBPK, and the invalid
\* KBPK length error for any other; tr31_wrap and tr31_unwrap called with a
\* KBPK of another length return an error, and no key block and no key.
C19_KbpkLength ==
  /\ win # NoCall =>
       /\ DeriveByLength(win.kbpk)
       /\ SLen(win.kbpk) \notin {16, 24, 32} => (wres.st = "err" /\ wres.v = <<>>)
  /\ UnwrapCalled =>
       /\ DeriveByLength(ures.kbpk)
       /\ SLen(ures.kbpk) \notin {16, 24, 32} => (ures.r.st = "err" /\ ures.r.v = <<>>)

\* C20: tr31_unwrap returns an error, and does not abort, for every key block
\* that is shorter than the length of its parsed header plus 32 characters of
\* ciphertext plus 32 characters of MAC.
C20_ShortBlockFails ==
  UnwrapCalled =>
    LET header == KeyBlockHeader_new_from_str(blk)
    IN  (header.st = "ok"
         /\ SLen(blk) < KeyBlockHeader_len(header.v) + 2 * TR31_D_BLOCK_LEN
                          + 2 * TR31_D_MAC_LEN)
          => ures.r.st = "err"
\* ------------------------------------------------- the known-answer vector

\* the KBPK, the KBEK and the KBAK of test_derive_keys_version_d_aes_128
VectorKbpk ==
  HexDecode(Str(<<"0", "0", "1", "1", "2", "2", "3", "3", "4", "4", "5", "5", "6", "6", "7", "7", "8", "8", "9", "9", "A", "A", "B", "B", "C", "C", "D", "D", "E", "E", "F", "F">>)).v
VectorKbek ==
  HexDecode(Str(<<"3", "7", "D", "C", "7", "7", "0", "0", "D", "7", "0", "7", "8", "1", "C", "3", "E", "2", "4", "9", "8", "A", "4", "1", "A", "0", "2", "7", "E", "0", "B", "1">>)).v
VectorKbak ==
  HexDecode(Str(<<"0", "6", "3", "E", "7", "8", "5", "C", "E", "4", "C", "4", "C", "8", "F", "E", "5", "4", "9", "2", "1", "8", "3", "9", "B", "D", "1", "F", "9", "A", "D", "F">>)).v

\* C21: derive_keys_version_d on the AES-128 KBPK
\* 00112233445566778899AABBCCDDEEFF returns the KBEK
\* 37DC7700D70781C3E2498A41A027E0B1 and the KBAK
\* 063E785CE4C4C8FE54921839BD1F9ADF, bit for bit.
C21_KnownAnswer ==
  (pc = "derived" /\ der.kbpk = VectorKbpk) => der.r = Ok(<<VectorKbek, VectorKbak>>)

\* the keys of the vector's KBPK have been derived
C21_VectorDerived == pc = "derived" /\ der.kbpk = VectorKbpk /\ der.r.st = "ok"

\* ---------------------------------------------------------- the PIN block

\* s consists of decimal digits 0-9
AllDecimal(s) == \A c \in Elems(s) : DigitVal(c, 10) >= 0

\* C22: encode_pinblock_iso_3 returns an error, and never aborts, whenever
\* the PIN is not 4 to 12 decimal digits, or the PAN is shorter than 13
\* characters, or the PIN or the PAN contains a character that is not a
\* decimal digit 0-9.
C22_PinBlockRejects ==
  (/\ pinb.r # NoResult
   /\ \/ ~AllDecimal(pinb.pin)
      \/ ~AllDecimal(pinb.pan)
      \/ Len(Chars(pinb.pin)) \notin 4..12
      \/ Len(Chars(pinb.pan)) < 13)
    => pinb.r.st = "err"

\* ------------------------------------------------- parsing a chain

RECURSIVE WellFormed(_, _)
\* s begins with n blocks, each with an allowed id, ASCII data and a length
\* field that holds hexadecimal digits, announces at least 4 characters (more
\* than 255 in the extended field) and no more than s has
WellFormed(s, n) ==
  IF n = 0 THEN TRUE
  ELSE /\ SLen(s) >= 4
       /\ IsAscii(s)
       /\ OptBlock_is_allowed_id(Slice(s, 0, 2))
       /\ LET ext == Slice(s, 2, 4) = S2("0", "0")
              field == IF ext THEN Slice(s, 6, 10) ELSE Slice(s, 2, 4)
              len == FromStrRadix(field, 16)
          IN  /\ ext => (SLen(s) >= 10 /\ Slice(s, 4, 6) = S2("0", "2"))
              /\ \A c \in Elems(field) : DigitVal(c, 16) >= 0
              /\ len >= (IF ext THEN 256 ELSE 4)
              /\ len <= SLen(s)
              /\ WellFormed(Drop(s, len), n - 1)

RECURSIVE DeclaredNodes(_, _)
\* the id and the data of the n blocks of a well-formed s, each block as long
\* as its length field announces
DeclaredNodes(s, n) ==
  IF n = 0 THEN <<>>
  ELSE LET ext == Slice(s, 2, 4) = S2("0", "0")
           len == FromStrRadix(IF ext THEN Slice(s, 6, 10) ELSE Slice(s, 2, 4), 16)
       IN  << [id |-> Slice(s, 0, 2), data |-> Slice(s, IF ext THEN 10 ELSE 4, len)] >>
             \o DeclaredNodes(Drop(s, len), n - 1)

\* C23: when OptBlock::new_from_str parses a chain, each node consumes
\* exactly the total length its length field announces (ordinary or
\* extended) and the next node is parsed from exactly that offset; a node
\* with the extended marker yields data of the announced length minus 10.
C23_ParseByDeclaredLength ==
  (pc = "parsed" /\ WellFormed(reparse.s.v, reparse.n)) =>
    /\ reparse.r.st = "ok"
    /\ Len(reparse.r.v) = reparse.n
    /\ \A k \in 1..reparse.n :
         /\ reparse.r.v[k].id = DeclaredNodes(reparse.s.v, reparse.n)[k].id
         /\ reparse.r.v[k].data = DeclaredNodes(reparse.s.v, reparse.n)[k].data

\* ------------------------------------------------- the length of a block

\* the length the id and the data of the block b ask for
LengthOf(b) ==
  IF SLen(b.id) + 2 + SLen(b.data) < 256 THEN SLen(b.id) + 2 + SLen(b.data)
  ELSE SLen(b.id) + 2 + SLen(b.data) + 6

\* C24: for every OptBlock on which set_data has once succeeded, after any
\* further sequence of set_id, set_data (succeeding or failing), set_next and
\* append calls, length is id.len() + 2 + data.len() when that sum is below
\* 256 and that sum plus 6 otherwise, and length never exceeds 65535.
C24_LengthInvariant ==
  \A k \in 1..Len(optb) : optb[k].length = LengthOf(optb[k]) /\ optb[k].length <= 65535

\* ---------------------------------------------- the layout of a key block

\* the keys <<KBEK, KBAK>> of the KBPK kbpk
KeysOf(kbpk) == derive_keys_version_d(kbpk).v
\* the plaintext payload of the wrap call
PayloadOfCall ==
  construct_payload(build, win.key, win.masked, TR31_D_BLOCK_LEN, win.seed).v
\* the header of the wrap call, exported with the kb_length the call stored
HeaderOfCall ==
  KeyBlockHeader_export_str(
    [win.header EXCEPT !.kb_length =
       (KeyBlockHeader_len(win.header) + 2 * SLen(PayloadOfCall) + 2 * TR31_D_MAC_LEN)
         % 65536]).v
\* M = CMAC(KBAK, header bytes || plaintext payload)
MacOfCall == AesCmac(Cat(AsBytes(HeaderOfCall), PayloadOfCall), KeysOf(win.kbpk)[2]).v
\* C = AES-CBC-Encrypt(KBEK, IV = M, plaintext payload)
CiphertextOfCall == AesEncCbc(PayloadOfCall, KeysOf(win.kbpk)[1], MacOfCall).v
\* the ciphertext the key block blk carries behind a header of n characters
CiphertextIn(n) == HexDecode(Slice(blk, n, SLen(blk) - 2 * TR31_D_MAC_LEN)).v
\* the plaintext of that ciphertext under the KBEK of the unwrap call, with the
\* transmitted MAC as the IV
PlaintextIn(n) == AesDecCbc(CiphertextIn(n), KeysOf(ures.kbpk)[1], ures.r.mac).v

\* C25: the key block tr31_wrap returns is header || HEX(C) || HEX(M) in
\* upper-case hex, header the exported header with the kb_length the call
\* stored, M the CMAC under the KBAK of the header bytes and the plaintext
\* payload, C the CBC encryption of the payload under the KBEK with M as the
\* IV; and the MAC tr31_unwrap recomputes is the CMAC under the KBAK of the
\* header characters and of the payload decrypted under the KBEK with the
\* transmitted MAC as the IV.
C25_KeyBlockLayout ==
  /\ (win # NoCall /\ wres.st = "ok") =>
        wres.v = Cat3(HeaderOfCall, HexEncodeUpper(CiphertextOfCall),
                      HexEncodeUpper(MacOfCall))
  /\ (UnwrapCalled /\ ures.r.calc # <<>>) =>
        \E n \in {KeyBlockHeader_len(KeyBlockHeader_new_from_str(blk).v)} :
          /\ ures.r.mac = HexDecode(Drop(blk, SLen(blk) - 2 * TR31_D_MAC_LEN)).v
          /\ ures.r.calc =
               AesCmac(Cat(AsBytes(Take(blk, n)), PlaintextIn(n)), KeysOf(ures.kbpk)[2]).v

\* a key block that was wrapped and unwrapped with the same KBPK, the keys
\* KBEK and KBAK being different
C25_WrappedAndUnwrapped ==
  /\ win # NoCall /\ wres.st = "ok" /\ SameKbpk /\ tam = NoTamper
  /\ ures.r.st = "ok"
  /\ KeysOf(win.kbpk)[1] # KeysOf(win.kbpk)[2]

\* ---------------------------------------------- the order of the steps

\* the results of the steps of the wrap call, each from the arguments alone
KeysOfCall == derive_keys_version_d(win.kbpk)
PayloadResultOfCall ==
  construct_payload(build, win.key, win.masked, TR31_D_BLOCK_LEN, win.seed)
TotalOfCall ==
  KeyBlockHeader_len(win.header) + 2 * SLen(PayloadResultOfCall.v) + 2 * TR31_D_MAC_LEN
UpdatedOfCall == KeyBlockHeader_set_kb_length(win.header, TotalOfCall % 65536)
ExportOfCall == KeyBlockHeader_export_str(UpdatedOfCall.v)

\* the step at which the wrap call ends: the first one that does not succeed
EndOfCall ==
  IF win.header.version_id # S1("D") THEN "version"
  ELSE IF KeysOfCall.st # "ok" THEN "derive"
  ELSE IF PayloadResultOfCall.st # "ok" THEN "payload"
  ELSE IF TotalOfCall % TR31_D_BLOCK_LEN # 0 THEN "align"
  ELSE IF UpdatedOfCall.st # "ok" THEN "length"
  ELSE IF ExportOfCall.st # "ok" THEN "export"
  ELSE "assembly"

\* tr31_wrap has been called on a header
WrapCalled == win # NoCall /\ win.header # <<>>

\* C26: tr31_wrap runs version check, key derivation, payload construction,
\* alignment check, kb_length update, header export, MAC, encryption and
\* assembly in that order; the call ends at the first step that does not
\* succeed, with the error of that step (with its abort when the step aborts),
\* and returns a key block only when every step has succeeded; a header whose
\* version is not D yields the unsupported-version error whatever the KBPK, the
\* seed and the header's length are.
C26_StepOrder ==
  WrapCalled =>
    /\ EndOfCall = "version" => wres = Err(VersionError)
    /\ EndOfCall = "derive" => wres = Err(KeysOfCall.e)
    /\ EndOfCall = "payload" =>
         (wres.st = PayloadResultOfCall.st /\ wres.e = PayloadResultOfCall.e)
    /\ EndOfCall = "align" => wres = Err(AlignError)
    /\ EndOfCall = "length" => wres = Err(UpdatedOfCall.e)
    /\ EndOfCall = "export" => wres = Err(ExportOfCall.e)
    /\ EndOfCall = "assembly" <=> wres.st = "ok"

\* a call on a header of version B that is not block-aligned, with a KBPK of
\* 15 bytes and a seed shorter than the padding
C26_AllWrong ==
  /\ WrapCalled
  /\ win.header.version_id # S1("D")
  /\ KeysOfCall.st = "err"
  /\ PayloadResultOfCall.st = "err"
  /\ KeyBlockHeader_len(win.header) % TR31_D_BLOCK_LEN # 0
  /\ wres = Err(VersionError)

\* ------------------------------------------- the numbers of a header string

\* KeyBlockHeader::new_from_str has just returned the header hdr for the string src
JustParsed == pc = "api" /\ last.op = "new_from_str" /\ last.st = "ok" /\ src # <<>>

\* C27: KeyBlockHeader::new_from_str returns a header only for a string whose
\* 4-character key-block-length field and 2-character optional-block-count
\* field hold decimal digits 0-9 and nothing else.
C27_NumericFields ==
  JustParsed => (AllDecimal(Slice(src, 1, 5)) /\ AllDecimal(Slice(src, 12, 14)))

\* C28: KeyBlockHeader::new_from_str returns a header only for a string whose
\* declared kb_length is at least the encoded length of the header: the 16
\* fixed characters plus the optional blocks it parsed.
C28_LengthConsistent ==
  JustParsed => hdr.kb_length >= KeyBlockHeader_len(hdr)

\* ------------------------------------------------ the fields of a header

\* the fields of the header h that are members of a set are in it
Enumerated(h) ==
  /\ h.version_id \in ALLOWED_VERSION_IDS
  /\ h.key_usage \in ALLOWED_KEY_USAGES
  /\ h.algorithm \in ALLOWED_ALGORITHMS
  /\ h.mode_of_use \in ALLOWED_MODES_OF_USE
  /\ h.exportability \in ALLOWED_EXPORTABILITIES

\* C29: in every state the public KeyBlockHeader operations reach, each of
\* version_id, key_usage, algorithm, mode_of_use and exportability is empty or a
\* member of its allowed set, key_version_number is empty or 2 ASCII
\* characters, reserved_field is "00" and kb_length is at most 9999; and every
\* header export_str succeeds on has all enumerated fields in their sets.
C29_FieldInvariant ==
  /\ hdr.version_id \in ALLOWED_VERSION_IDS \cup {<<>>}
  /\ hdr.key_usage \in ALLOWED_KEY_USAGES \cup {<<>>}
  /\ hdr.algorithm \in ALLOWED_ALGORITHMS \cup {<<>>}
  /\ hdr.mode_of_use \in ALLOWED_MODES_OF_USE \cup {<<>>}
  /\ hdr.exportability \in ALLOWED_EXPORTABILITIES \cup {<<>>}
  /\ hdr.key_version_number = <<>>
       \/ (SLen(hdr.key_version_number) = 2 /\ IsAscii(hdr.key_version_number))
  /\ hdr.reserved_field = S2("0", "0")
  /\ hdr.kb_length <= 9999
  /\ (last.op = "export_str" /\ last.st = "ok") => Enumerated(hdr)

\* export_str succeeds on a header on which the call before, set_key_usage
\* with a value outside the allowed set, returned an error
C29_ExportedAfterRejection ==
  /\ last.op = "export_str" /\ last.st = "ok"
  /\ last.prev.op = "key_usage"
  /\ hdr.key_usage = S2("P", "0")

\* ------------------------------------------------- setters that fail

\* the id, the data and the length of the block b
OwnFields(b) == [id |-> b.id, data |-> b.data, length |-> b.length]

\* C30: a setter of KeyBlockHeader or of OptBlock (set_id, set_data) that
\* returns an error leaves every field of the object, the data and the length
\* of an OptBlock included, as it was before the call.
C30_FailedSetterKeeps ==
  /\ (last.op \in Fields /\ last.st = "err") => hdr = last.from
  /\ (last.op \in {"set_id", "set_data"} /\ last.st = "err")
       => OwnFields(optb[1]) = OwnFields(last.from[1])

====
